---- MODULE Spec2Model ----
(***************************************************************************)
(* Model of the KVCore client library: the enumeration registry            *)
(* (constants), the KVCoreClient transport with its request and response   *)
(* interceptors, and the resource mediators (contacts, notes, calls,       *)
(* search alerts, misc).                                                   *)
(***************************************************************************)
EXTENDS Integers, Sequences, FiniteSets, TLC

VARIABLES debug, calls, client, reg, toggled, srv, tables

vars == <<debug, calls, client, reg, toggled, srv, tables>>

(***************************************************************************)
(* Bounds of the model.                                                    *)
(***************************************************************************)
\* Numeric inputs (result codes, alert numbers) range over -1..MaxCode.
MaxCode == 4
\* Number of promises the caller of the concurrent specification holds at once.
MaxCalls == 2
\* Requests the server takes from its client within one rate-limit window.
MaxHits == 3

(***************************************************************************)
(* JavaScript primitive values: kind k, numeric part n, string part s.     *)
(***************************************************************************)
Undefined == [k |-> "undefined", n |-> 0, s |-> ""]
Null == [k |-> "null", n |-> 0, s |-> ""]
Bool(b) == [k |-> "boolean", n |-> IF b THEN 1 ELSE 0, s |-> ""]
Num(i) == [k |-> "number", n |-> i, s |-> ""]
Str(x) == [k |-> "string", n |-> 0, s |-> x]
\* The number NaN: falsy, equal to no integer.
NaN == [k |-> "number", n |-> 0, s |-> "NaN"]

\* ToBoolean: what `if (v)`, `!v` and `a || b` test.
Truthy(v) ==
  CASE v.k = "undefined" -> FALSE
    [] v.k = "null" -> FALSE
    [] v.k = "boolean" -> v.n = 1
    [] v.k = "number" -> v.n # 0
    [] v.k = "string" -> v.s # ""

\* a || b : the first operand when it is truthy, else the second.
JsOr(a, b) == IF Truthy(a) THEN a ELSE b

Digit(d) == CASE d = 0 -> "0" [] d = 1 -> "1" [] d = 2 -> "2" [] d = 3 -> "3"
              [] d = 4 -> "4" [] d = 5 -> "5" [] d = 6 -> "6" [] d = 7 -> "7"
              [] d = 8 -> "8" [] d = 9 -> "9"

RECURSIVE NatToString(_)
NatToString(i) == IF i < 10 THEN Digit(i) ELSE NatToString(i \div 10) \o Digit(i % 10)

\* Number::toString for integers.
IntToString(i) == IF i < 0 THEN "-" \o NatToString(-i) ELSE NatToString(i)

\* ToString of a primitive (Js prefix: TLC has its own ToString): template literals `${v}` and property keys use it.
JsToString(v) ==
  CASE v.k = "undefined" -> "undefined"
    [] v.k = "null" -> "null"
    [] v.k = "boolean" -> (IF v.n = 1 THEN "true" ELSE "false")
    [] v.k = "number" -> (IF v.s = "NaN" THEN "NaN" ELSE IntToString(v.n))
    [] v.k = "string" -> v.s

\* SameValueZero, the comparison Array.prototype.includes uses.
SameValueZero(a, b) == a = b

\* Array.prototype.includes over a sequence of primitives.
Includes(arr, v) == \E i \in DOMAIN arr : SameValueZero(arr[i], v)

\* Properties every plain object inherits from Object.prototype.
ObjectPrototypeKeys ==
  {"constructor", "toString", "toLocaleString", "valueOf", "hasOwnProperty",
   "isPrototypeOf", "propertyIsEnumerable", "__proto__",
   "__defineGetter__", "__defineSetter__", "__lookupGetter__", "__lookupSetter__"}

\* key in obj, for a plain object literal with own keys DOMAIN obj.
HasProperty(obj, key) == JsToString(key) \in (DOMAIN obj \cup ObjectPrototypeKeys)

(***************************************************************************)
(* Enumeration registry (constants).                                       *)
(***************************************************************************)
LEAD_STATUS ==
  [c \in {"0", "1", "2", "3", "4", "5", "6", "7"} |->
     CASE c = "0" -> "New" [] c = "1" -> "Client" [] c = "2" -> "Closed"
       [] c = "3" -> "Sphere" [] c = "4" -> "Active" [] c = "5" -> "Contract"
       [] c = "6" -> "Archived" [] c = "7" -> "Prospect"]

CALL_RESULT ==
  [c \in {"1", "2", "3"} |->
     CASE c = "1" -> "Bad Number" [] c = "2" -> "Not Home" [] c = "3" -> "Contacted"]

CALL_DIRECTION == <<Str("outbound"), Str("inbound")>>

SEARCH_ALERT_NUMBER == <<Num(1), Num(2)>>

CONTACT_STATUS_FILTER ==
  [c \in {"0", "1", "2", "3", "4", "5", "7"} |->
     CASE c = "0" -> "New" [] c = "1" -> "Client" [] c = "2" -> "Closed"
       [] c = "3" -> "Sphere" [] c = "4" -> "Active" [] c = "5" -> "Contract"
       [] c = "7" -> "Prospect"]

DEAL_TYPES == <<Str("buyer"), Str("seller"), Str("renter")>>

LEADTYPE_FILTER == <<Str("buyer"), Str("seller"), Str("renter"), Str("agent"), Str("vendor")>>

\* The enumeration objects the module creates when it is loaded; they are
\* plain (not frozen) objects and arrays.
Tables ==
  [LEAD_STATUS |-> LEAD_STATUS,
   CONTACT_STATUS_FILTER |-> CONTACT_STATUS_FILTER,
   CALL_RESULT |-> CALL_RESULT,
   CALL_DIRECTION |-> CALL_DIRECTION,
   DEAL_TYPES |-> DEAL_TYPES,
   LEADTYPE_FILTER |-> LEADTYPE_FILTER,
   SEARCH_ALERT_NUMBER |-> SEARCH_ALERT_NUMBER]

\* Object.keys(LEAD_STATUS): integer keys in ascending order.
LeadStatusKeys == <<"0", "1", "2", "3", "4", "5", "6", "7">>

\* What a property read finds on Object.prototype (a function, for most keys).
InheritedProperty(key) == [k |-> "inherited", n |-> 0, s |-> key]

\* LEAD_STATUS[code]: own property, else inherited one, else undefined.
getLeadStatusName(code) ==
  LET key == JsToString(code) IN
  IF key \in DOMAIN LEAD_STATUS THEN Str(LEAD_STATUS[key])
  ELSE IF key \in ObjectPrototypeKeys THEN InheritedProperty(key)
  ELSE Undefined

\* Faulty variant: the search returns the label found, not its key.
getLeadStatusCode_ReturnsLabel(name) ==
  LET hits == {i \in DOMAIN LeadStatusKeys : Str(LEAD_STATUS[LeadStatusKeys[i]]) = name}
  IN IF hits = {} THEN Undefined
     ELSE Str(LEAD_STATUS[LeadStatusKeys[CHOOSE i \in hits : \A j \in hits : i <= j]])

\* Object.keys(LEAD_STATUS).find(key => LEAD_STATUS[key] === name): the first
\* key (a string) whose label is strictly equal to name, else undefined.
getLeadStatusCode(name) ==
  LET hits == {i \in DOMAIN LeadStatusKeys : Str(LEAD_STATUS[LeadStatusKeys[i]]) = name}
  IN IF hits = {} THEN Undefined
     ELSE Str(LeadStatusKeys[CHOOSE i \in hits : \A j \in hits : i <= j])

isValidCallResult(code) == HasProperty(CALL_RESULT, code)

isValidCallDirection(direction) == Includes(CALL_DIRECTION, direction)

\* Faulty variant: membership by loose comparison, so '1' passes for 1.
isValidSearchAlertNumber_Loose(number) ==
  \E i \in DOMAIN SEARCH_ALERT_NUMBER :
    JsToString(SEARCH_ALERT_NUMBER[i]) = JsToString(number)

isValidSearchAlertNumber(number) == Includes(SEARCH_ALERT_NUMBER, number)

(***************************************************************************)
(* Payloads, response bodies, requests and errors.  Every object is a      *)
(* record with a kind field k; a field holding Undefined is an absent      *)
(* field.                                                                  *)
(***************************************************************************)
NoPayload == [k |-> "undefined"]

\* A response body: an object with optional id/message/error fields, the
\* JSON value null, a string (s), or nothing at all.
DataObject(id, message, error) ==
  [k |-> "object", id |-> id, message |-> message, error |-> error, s |-> ""]
DataNull == [k |-> "null", id |-> Undefined, message |-> Undefined, error |-> Undefined, s |-> ""]
DataString(x) == [k |-> "string", id |-> Undefined, message |-> Undefined, error |-> Undefined, s |-> x]
NoData == [k |-> "undefined", id |-> Undefined, message |-> Undefined, error |-> Undefined, s |-> ""]

\* The headers of a request: the instance defaults given to axios.create.
NoHeaders == [Accept |-> "", ContentType |-> "", Authorization |-> ""]

NoRequest ==
  [method |-> "", url |-> "", data |-> NoPayload, params |-> NoPayload,
   headers |-> NoHeaders]

NoResponse == [status |-> 0, data |-> NoData]

\* new Error(message): a plain error, no statusCode, no responseData.
NewError(name, message) ==
  [name |-> name, message |-> message, statusCode |-> Undefined,
   responseData |-> NoData, hasResponse |-> FALSE, response |-> NoResponse,
   hasRequest |-> FALSE]

NoError == NewError("", Undefined)

\* The error the HTTP library rejects with when the upstream answered
\* outside 2xx: it carries the response and the request.
HttpStatusError(status, data) ==
  [NewError("AxiosError", Str("Request failed with status code " \o IntToString(status)))
     EXCEPT !.hasResponse = TRUE, !.response = [status |-> status, data |-> data],
            !.hasRequest = TRUE]

\* The error when the request was sent and nothing came back.
NoResponseError(message) ==
  [NewError("AxiosError", Str(message)) EXCEPT !.hasRequest = TRUE]

\* The error when the request could not be set up: no response, no request.
SetupError(message) == NewError("Error", Str(message))

(***************************************************************************)
(* KVCoreClient: the response interceptor's error handler.                 *)
(***************************************************************************)
\* data.message and data.error read a property of the response body:
\* reading a property of null or undefined throws a TypeError.
CanReadProperty(data) == data.k \notin {"null", "undefined"}

PropertyReadTypeError(data) ==
  NewError("TypeError",
           Str("Cannot read properties of " \o data.k \o " (reading 'message')"))

\* Faulty variant: the no-response case is given the status of the
\* never-sent case.
responseErrorInterceptor_NoResponseAs500(error) ==
  IF error.hasResponse
    THEN LET status == error.response.status
             data == error.response.data
         IN IF ~CanReadProperty(data)
              THEN PropertyReadTypeError(data)
              ELSE [error EXCEPT
                      !.message = JsOr(data.message, JsOr(data.error, error.message)),
                      !.statusCode = Num(status),
                      !.responseData = data]
    ELSE IF error.hasRequest
      THEN [error EXCEPT
              !.message = Str("No response received from KVCore API"),
              !.statusCode = Num(500)]
      ELSE [error EXCEPT !.statusCode = Num(500)]

\* Faulty variant: the never-sent case is told apart by the response alone,
\* so it is reported as "no response" with 503.
responseErrorInterceptor_NoRequestCheck(error) ==
  IF error.hasResponse
    THEN LET status == error.response.status
             data == error.response.data
         IN IF ~CanReadProperty(data)
              THEN PropertyReadTypeError(data)
              ELSE [error EXCEPT
                      !.message = JsOr(data.message, JsOr(data.error, error.message)),
                      !.statusCode = Num(status),
                      !.responseData = data]
    ELSE [error EXCEPT
            !.message = Str("No response received from KVCore API"),
            !.statusCode = Num(503)]

\* (error) => { ... return Promise.reject(error) }: the error the returned
\* promise rejects with.  A throw inside the handler rejects with the
\* thrown TypeError instead of the error being normalized.
responseErrorInterceptor(error) ==
  IF error.hasResponse
    THEN LET status == error.response.status
             data == error.response.data
         IN IF ~CanReadProperty(data)
              THEN PropertyReadTypeError(data)
              ELSE [error EXCEPT
                      !.message = JsOr(data.message, JsOr(data.error, error.message)),
                      !.statusCode = Num(status),
                      !.responseData = data]
    ELSE IF error.hasRequest
      THEN [error EXCEPT
              !.message = Str("No response received from KVCore API"),
              !.statusCode = Num(503)]
      ELSE [error EXCEPT !.statusCode = Num(500)]

(***************************************************************************)
(* State.  calls[i] is the i-th promise the caller holds: which operation  *)
(* it came from and with which arguments, how often the operation invoked   *)
(* the transport and with which request, what the interceptors logged, and  *)
(* what the promise settled with.                                          *)
(***************************************************************************)
Slots == 1..MaxCalls

\* The caller of the sequential specification awaits each call before it
\* starts the next: it holds one promise at a time.
SeqSlots == {1}

NoArgs == [id |-> Undefined, id2 |-> Undefined, payload |-> NoPayload]

\* What the transport met for a request: nothing yet, a 2xx or non-2xx
\* answer (status, data), no response, or a failure to set the request up
\* (message: the underlying error's message).
NoAnswer == [kind |-> "none", status |-> 0, data |-> NoData, message |-> ""]

IdleCall ==
  [op |-> "", phase |-> "idle", args |-> NoArgs, invoked |-> 0, req |-> NoRequest,
   returnsData |-> FALSE, upstream |-> NoAnswer, reqLogged |-> FALSE,
   resLogged |-> FALSE, value |-> NoData, err |-> NoError]

(***************************************************************************)
(* KVCoreClient: construction.  client is what `new KVCoreClient(config)`  *)
(* left behind: nothing yet, a client (resolved config, the axios instance *)
(* this.http, the mediator members) or the error it threw.                 *)
(***************************************************************************)
EmptyConfig ==
  [k |-> "object", baseURL |-> Undefined, timeout |-> Undefined, bearerToken |-> Undefined]

NoHttp == [baseURL |-> "", timeout |-> 0, headers |-> NoHeaders]

NoClient ==
  [state |-> "none", given |-> NoPayload,
   config |-> [baseURL |-> Undefined, timeout |-> Undefined, bearerToken |-> Undefined],
   http |-> NoHttp, mediators |-> {}, error |-> NoError]

DefaultBaseURL == "https://api.kvcore.com/v2/public"

DefaultTimeout == 30000

Mediators == {"contacts", "notes", "calls", "searchAlerts", "misc"}

\* Faulty variant: the token is sent without its scheme.
NewClient_RawToken(given, cfg) ==
  LET config == [baseURL |-> JsOr(cfg.baseURL, Str(DefaultBaseURL)),
                 timeout |-> JsOr(cfg.timeout, Num(DefaultTimeout)),
                 bearerToken |-> cfg.bearerToken]
  IN [state |-> "ready", given |-> given, config |-> config,
      http |-> [baseURL |-> JsToString(config.baseURL),
                timeout |-> config.timeout.n,
                headers |-> [Accept |-> "application/json",
                             ContentType |-> "application/json",
                             Authorization |-> JsToString(config.bearerToken)]],
      mediators |-> Mediators, error |-> NoError]

\* Faulty variant: the transport is created without a timeout (0: the HTTP
\* library waits without limit).
NewClient_NoTimeout(given, cfg) ==
  LET config == [baseURL |-> JsOr(cfg.baseURL, Str(DefaultBaseURL)),
                 timeout |-> JsOr(cfg.timeout, Num(DefaultTimeout)),
                 bearerToken |-> cfg.bearerToken]
  IN [state |-> "ready", given |-> given, config |-> config,
      http |-> [baseURL |-> JsToString(config.baseURL),
                timeout |-> 0,
                headers |-> [Accept |-> "application/json",
                             ContentType |-> "application/json",
                             Authorization |-> "Bearer " \o JsToString(config.bearerToken)]],
      mediators |-> Mediators, error |-> NoError]

\* The client a successful constructor leaves: this.config, this.http
\* (axios.create with baseURL, timeout and the three headers) and the five
\* API modules, each given this.http.
NewClient(given, cfg) ==
  LET config == [baseURL |-> JsOr(cfg.baseURL, Str(DefaultBaseURL)),
                 timeout |-> JsOr(cfg.timeout, Num(DefaultTimeout)),
                 bearerToken |-> cfg.bearerToken]
  IN [state |-> "ready", given |-> given, config |-> config,
      http |-> [baseURL |-> JsToString(config.baseURL),
                timeout |-> config.timeout.n,
                headers |-> [Accept |-> "application/json",
                             ContentType |-> "application/json",
                             Authorization |-> "Bearer " \o JsToString(config.bearerToken)]],
      mediators |-> Mediators, error |-> NoError]

\* Faulty variant: only an absent token is refused, an empty one is taken.
Construct_AbsentOnly(given) ==
  LET cfg == IF given = NoPayload THEN EmptyConfig ELSE given IN
  /\ client.state = "none"
  /\ IF cfg.bearerToken = Undefined
       THEN /\ client' = [NoClient EXCEPT !.state = "failed", !.given = given,
                             !.error = NewError("Error", Str("bearerToken is required"))]
            /\ UNCHANGED <<debug, tables>>
       ELSE /\ client' = NewClient(given, cfg)
            /\ debug' = FALSE
  /\ UNCHANGED <<calls, reg, toggled, srv, tables>>

\* new KVCoreClient(config), config = {} when omitted.
Construct(given) ==
  LET cfg == IF given = NoPayload THEN EmptyConfig ELSE given IN
  /\ client.state = "none"
  /\ IF ~Truthy(cfg.bearerToken)
       THEN /\ client' = [NoClient EXCEPT !.state = "failed", !.given = given,
                             !.error = NewError("Error", Str("bearerToken is required"))]
            /\ UNCHANGED <<debug, tables>>
       ELSE /\ client' = NewClient(given, cfg)
            /\ debug' = FALSE
  /\ UNCHANGED <<calls, reg, toggled, srv, tables>>

\* The registry functions evaluated last (at most two), oldest first.
NoEvaluations == << >>

\* The debug switch the caller used last, and whether the call before it was
\* to the same switch.
NoToggle == [op |-> "none", repeated |-> FALSE]

\* The server adapter: an HTTP request a route handler is working on (its
\* route, path parameters, query and body), the upstream request it made
\* and the response it sent.
NoParams == [contactId |-> "", actionId |-> "", alertNumber |-> ""]

NoReply == [status |-> 0, kind |-> "none", data |-> NoData, error |-> Undefined,
            details |-> NoData, message |-> Undefined, timestamp |-> Undefined,
            stack |-> FALSE]

IdleHandler ==
  [route |-> "", phase |-> "idle", params |-> NoParams, query |-> NoPayload,
   body |-> NoPayload, invoked |-> 0, req |-> NoRequest, okStatus |-> 0,
   sendsData |-> FALSE, upstream |-> NoAnswer, err |-> NoError, res |-> NoReply]

\* The requests the server has in hand at one time: a handler awaits its
\* upstream call, and the server takes other requests meanwhile.
Requests == {1, 2}

\* A client that sends its next request when the last one is answered.
SeqRequests == {1}

\* The server process has not been started: the limiter is not configured
\* and no request is in hand.
ServerDown ==
  [phase |-> "down", err |-> NoError, limit |-> 0, hits |-> 0, development |-> FALSE,
   requests |-> [h \in Requests |-> IdleHandler]]

Init ==
  /\ debug = FALSE
  /\ calls = [i \in Slots |-> IdleCall]
  /\ client = NoClient
  /\ reg = NoEvaluations
  /\ toggled = NoToggle
  /\ srv = ServerDown
  /\ tables = Tables

\* The caller starts an operation on a constructed client, in a slot that
\* holds no promise.
CanStart(i) == client.state = "ready" /\ calls[i].phase = "idle"

\* throw new Error(message) inside an async method: the returned promise
\* rejects, the transport was not invoked.
Throw(i, op, args, message) ==
  calls' = [calls EXCEPT ![i] =
              [IdleCall EXCEPT !.op = op, !.phase = "rejected", !.args = args,
                               !.err = NewError("Error", Str(message))]]

\* await this.http.<method>(url, data, {params}): the transport is invoked
\* once with the request; the promise is pending.  returnsData tells whether
\* the method goes on with `return data` or returns nothing.
HttpCall(i, op, args, method, url, data, params, returnsData) ==
  calls' = [calls EXCEPT ![i] =
              [IdleCall EXCEPT !.op = op, !.phase = "queued", !.args = args,
                               !.invoked = 1, !.returnsData = returnsData,
                               !.req = [method |-> method, url |-> url,
                                        data |-> data, params |-> params,
                                        headers |-> client.http.headers]]]

(***************************************************************************)
(* Inputs the caller draws its arguments from.                             *)
(***************************************************************************)
NumInputs == {Num(n) : n \in -1..MaxCode}

ContactIds == {Num(42), Str("abc")}

ActionIds == {Num(7)}

ResultInputs ==
  NumInputs \cup {Num(9), Undefined, Null, Bool(TRUE),
                  Str("1"), Str("abc"), Str("toString"), Str("")}

DirectionInputs ==
  {Undefined, Null, Str("outbound"), Str("inbound"), Str("sideways"), Str("")}

CallDataInputs ==
  {[k |-> "object", date |-> Str("2024-05-01"), result |-> r, direction |-> d] :
     r \in ResultInputs, d \in DirectionInputs}

AlertNumberInputs ==
  NumInputs \cup {Undefined, Null, Bool(TRUE), Str("1"), Str("2"), Str("abc")}

AlertDataInputs ==
  {[k |-> "object", number |-> n, active |-> Num(1)] : n \in AlertNumberInputs}

LeadIdInputs == {Undefined, Null, Num(0), Num(42), Str(""), Str("abc")}

ScheduleCallInputs ==
  {[k |-> "object", leadId |-> l, note |-> Str("call back")] : l \in LeadIdInputs}

MlsIdInputs == {Undefined, Str(""), Str("M-1")}

ViewDataInputs ==
  {[k |-> "object", lead_id |-> l, mls_id |-> m, save |-> Bool(TRUE)] :
     l \in LeadIdInputs, m \in MlsIdInputs}

EmptyObject == [k |-> "object"]

FilterInputs == {NoPayload, [k |-> "object", limit |-> Num(10), email |-> Str("a@b.c")]}

ContactDataInputs == {[k |-> "object", first_name |-> Str("Ann"), status |-> Num(0)]}

TagsInputs == {[k |-> "array", items |-> <<Str("#vip")>>]}

EmailDataInputs ==
  {[k |-> "object", subject |-> Str("Hi"), message |-> Str("Body")],
   [k |-> "object", subject |-> Str(""), message |-> Undefined]}

TextDataInputs == {[k |-> "object", message |-> Str("Body")]}

QuestionDataInputs == {[k |-> "object", mls_id |-> Str("M-1"), question |-> Str("Price?")]}

NoteDataInputs == {[k |-> "object", title |-> Str("t"), details |-> Str("d")]}

(***************************************************************************)
(* CallsAPI                                                                *)
(***************************************************************************)
ContactPath(contactId) == "/contact/" \o JsToString(contactId)

CallsList(i, contactId) ==
  /\ CanStart(i)
  /\ HttpCall(i, "calls.list", [NoArgs EXCEPT !.id = contactId], "get",
              ContactPath(contactId) \o "/action/call", NoPayload, NoPayload, TRUE)
  /\ UNCHANGED <<debug, client, reg, toggled, srv, tables>>

CallsGet(i, contactId, actionId) ==
  /\ CanStart(i)
  /\ HttpCall(i, "calls.get", [NoArgs EXCEPT !.id = contactId, !.id2 = actionId], "get",
              ContactPath(contactId) \o "/action/call/" \o JsToString(actionId),
              NoPayload, NoPayload, TRUE)
  /\ UNCHANGED <<debug, client, reg, toggled, srv, tables>>

\* Faulty variant: an absent direction is sent as 'outbound'.
CallsCreate_DefaultsDirection(i, contactId, callData) ==
  LET args == [NoArgs EXCEPT !.id = contactId, !.payload = callData]
      sent == IF callData.direction = Undefined
                THEN [callData EXCEPT !.direction = Str("outbound")]
                ELSE callData
  IN
  /\ CanStart(i)
  /\ IF Truthy(callData.result) /\ ~isValidCallResult(callData.result)
       THEN Throw(i, "calls.create", args,
                  "Invalid call result code. Must be 1 (Bad Number), 2 (Not Home), or 3 (Contacted)")
       ELSE IF Truthy(callData.direction) /\ ~isValidCallDirection(callData.direction)
         THEN Throw(i, "calls.create", args,
                    "Invalid call direction. Must be \"outbound\" or \"inbound\"")
         ELSE HttpCall(i, "calls.create", args, "put",
                       ContactPath(contactId) \o "/action/call", sent, NoPayload, TRUE)
  /\ UNCHANGED <<debug, client, reg, toggled, srv, tables>>

CallsCreate(i, contactId, callData) ==
  LET args == [NoArgs EXCEPT !.id = contactId, !.payload = callData] IN
  /\ CanStart(i)
  /\ IF Truthy(callData.result) /\ ~isValidCallResult(callData.result)
       THEN Throw(i, "calls.create", args,
                  "Invalid call result code. Must be 1 (Bad Number), 2 (Not Home), or 3 (Contacted)")
       ELSE IF Truthy(callData.direction) /\ ~isValidCallDirection(callData.direction)
         THEN Throw(i, "calls.create", args,
                    "Invalid call direction. Must be \"outbound\" or \"inbound\"")
         ELSE HttpCall(i, "calls.create", args, "put",
                       ContactPath(contactId) \o "/action/call", callData, NoPayload, TRUE)
  /\ UNCHANGED <<debug, client, reg, toggled, srv, tables>>

CallsUpdate(i, contactId, actionId, callData) ==
  LET args == [id |-> contactId, id2 |-> actionId, payload |-> callData] IN
  /\ CanStart(i)
  /\ IF Truthy(callData.result) /\ ~isValidCallResult(callData.result)
       THEN Throw(i, "calls.update", args,
                  "Invalid call result code. Must be 1 (Bad Number), 2 (Not Home), or 3 (Contacted)")
       ELSE IF Truthy(callData.direction) /\ ~isValidCallDirection(callData.direction)
         THEN Throw(i, "calls.update", args,
                    "Invalid call direction. Must be \"outbound\" or \"inbound\"")
         ELSE HttpCall(i, "calls.update", args, "put",
                       ContactPath(contactId) \o "/action/call/" \o JsToString(actionId),
                       callData, NoPayload, TRUE)
  /\ UNCHANGED <<debug, client, reg, toggled, srv, tables>>

(***************************************************************************)
(* SearchAlertsAPI                                                         *)
(***************************************************************************)
InvalidAlertNumber == "Invalid alert number. Must be 1 or 2"

AlertPath(contactId, alertNumber) ==
  ContactPath(contactId) \o "/searchalert/" \o JsToString(alertNumber)

SearchAlertsList(i, contactId) ==
  /\ CanStart(i)
  /\ HttpCall(i, "searchAlerts.list", [NoArgs EXCEPT !.id = contactId], "get",
              ContactPath(contactId) \o "/searchalert", NoPayload, NoPayload, TRUE)
  /\ UNCHANGED <<debug, client, reg, toggled, srv, tables>>

\* Faulty variant: only checks that a number is given, not which.
SearchAlertsCreate_PresenceOnly(i, contactId, alertData) ==
  LET args == [NoArgs EXCEPT !.id = contactId, !.payload = alertData] IN
  /\ CanStart(i)
  /\ IF ~Truthy(alertData.number)
       THEN Throw(i, "searchAlerts.create", args, InvalidAlertNumber)
       ELSE HttpCall(i, "searchAlerts.create", args, "post",
                     ContactPath(contactId) \o "/searchalert", alertData, NoPayload, TRUE)
  /\ UNCHANGED <<debug, client, reg, toggled, srv, tables>>

SearchAlertsCreate(i, contactId, alertData) ==
  LET args == [NoArgs EXCEPT !.id = contactId, !.payload = alertData] IN
  /\ CanStart(i)
  /\ IF ~Truthy(alertData.number) \/ ~isValidSearchAlertNumber(alertData.number)
       THEN Throw(i, "searchAlerts.create", args, InvalidAlertNumber)
       ELSE HttpCall(i, "searchAlerts.create", args, "post",
                     ContactPath(contactId) \o "/searchalert", alertData, NoPayload, TRUE)
  /\ UNCHANGED <<debug, client, reg, toggled, srv, tables>>

SearchAlertsUpdate(i, contactId, alertNumber, alertData) ==
  LET args == [id |-> contactId, id2 |-> alertNumber, payload |-> alertData] IN
  /\ CanStart(i)
  /\ IF ~isValidSearchAlertNumber(alertNumber)
       THEN Throw(i, "searchAlerts.update", args, InvalidAlertNumber)
       ELSE HttpCall(i, "searchAlerts.update", args, "put",
                     AlertPath(contactId, alertNumber), alertData, NoPayload, TRUE)
  /\ UNCHANGED <<debug, client, reg, toggled, srv, tables>>

SearchAlertsDelete(i, contactId, alertNumber) ==
  LET args == [NoArgs EXCEPT !.id = contactId, !.id2 = alertNumber] IN
  /\ CanStart(i)
  /\ IF ~isValidSearchAlertNumber(alertNumber)
       THEN Throw(i, "searchAlerts.delete", args, InvalidAlertNumber)
       ELSE HttpCall(i, "searchAlerts.delete", args, "delete",
                     AlertPath(contactId, alertNumber), NoPayload, NoPayload, FALSE)
  /\ UNCHANGED <<debug, client, reg, toggled, srv, tables>>

SearchAlertsSend(i, contactId, alertNumber) ==
  LET args == [NoArgs EXCEPT !.id = contactId, !.id2 = alertNumber] IN
  /\ CanStart(i)
  /\ IF ~isValidSearchAlertNumber(alertNumber)
       THEN Throw(i, "searchAlerts.send", args, InvalidAlertNumber)
       ELSE HttpCall(i, "searchAlerts.send", args, "post",
                     AlertPath(contactId, alertNumber) \o "/send", NoPayload, NoPayload, TRUE)
  /\ UNCHANGED <<debug, client, reg, toggled, srv, tables>>

SearchAlertsGetRecent(i, contactId, alertNumber) ==
  LET args == [NoArgs EXCEPT !.id = contactId, !.id2 = alertNumber] IN
  /\ CanStart(i)
  /\ IF ~isValidSearchAlertNumber(alertNumber)
       THEN Throw(i, "searchAlerts.getRecent", args, InvalidAlertNumber)
       ELSE HttpCall(i, "searchAlerts.getRecent", args, "get",
                     AlertPath(contactId, alertNumber) \o "/recent", NoPayload, NoPayload, TRUE)
  /\ UNCHANGED <<debug, client, reg, toggled, srv, tables>>

(***************************************************************************)
(* MiscAPI                                                                 *)
(***************************************************************************)
MiscScheduleCall(i, callData) ==
  LET args == [NoArgs EXCEPT !.payload = callData] IN
  /\ CanStart(i)
  /\ IF ~Truthy(callData.leadId)
       THEN Throw(i, "misc.scheduleCall", args, "leadId is required")
       ELSE HttpCall(i, "misc.scheduleCall", args, "post", "/schedule-call",
                     callData, NoPayload, TRUE)
  /\ UNCHANGED <<debug, client, reg, toggled, srv, tables>>

\* Faulty variant: the mls_id check is left out.
MiscAddListingView_NoMlsCheck(i, viewData) ==
  LET args == [NoArgs EXCEPT !.payload = viewData] IN
  /\ CanStart(i)
  /\ IF ~Truthy(viewData.lead_id)
       THEN Throw(i, "misc.addListingView", args, "lead_id is required")
       ELSE HttpCall(i, "misc.addListingView", args, "post", "/views",
                     viewData, NoPayload, TRUE)
  /\ UNCHANGED <<debug, client, reg, toggled, srv, tables>>

MiscAddListingView(i, viewData) ==
  LET args == [NoArgs EXCEPT !.payload = viewData] IN
  /\ CanStart(i)
  /\ IF ~Truthy(viewData.lead_id)
       THEN Throw(i, "misc.addListingView", args, "lead_id is required")
       ELSE IF ~Truthy(viewData.mls_id)
         THEN Throw(i, "misc.addListingView", args, "mls_id is required")
         ELSE HttpCall(i, "misc.addListingView", args, "post", "/views",
                       viewData, NoPayload, TRUE)
  /\ UNCHANGED <<debug, client, reg, toggled, srv, tables>>

(***************************************************************************)
(* ContactsAPI                                                             *)
(***************************************************************************)
\* list(filters = {}): an omitted argument takes the default {}.
ContactsList(i, filters) ==
  LET params == IF filters = NoPayload THEN EmptyObject ELSE filters IN
  /\ CanStart(i)
  /\ HttpCall(i, "contacts.list", [NoArgs EXCEPT !.payload = filters], "get",
              "/contacts", NoPayload, params, TRUE)
  /\ UNCHANGED <<debug, client, reg, toggled, srv, tables>>

ContactsGet(i, contactId) ==
  /\ CanStart(i)
  /\ HttpCall(i, "contacts.get", [NoArgs EXCEPT !.id = contactId], "get",
              ContactPath(contactId), NoPayload, NoPayload, TRUE)
  /\ UNCHANGED <<debug, client, reg, toggled, srv, tables>>

ContactsCreate(i, contactData) ==
  /\ CanStart(i)
  /\ HttpCall(i, "contacts.create", [NoArgs EXCEPT !.payload = contactData], "post",
              "/contact", contactData, NoPayload, TRUE)
  /\ UNCHANGED <<debug, client, reg, toggled, srv, tables>>

ContactsUpdate(i, contactId, contactData) ==
  /\ CanStart(i)
  /\ HttpCall(i, "contacts.update", [NoArgs EXCEPT !.id = contactId, !.payload = contactData], "put",
              ContactPath(contactId), contactData, NoPayload, TRUE)
  /\ UNCHANGED <<debug, client, reg, toggled, srv, tables>>

ContactsDelete(i, contactId) ==
  /\ CanStart(i)
  /\ HttpCall(i, "contacts.delete", [NoArgs EXCEPT !.id = contactId], "delete",
              ContactPath(contactId) \o "/", NoPayload, NoPayload, FALSE)
  /\ UNCHANGED <<debug, client, reg, toggled, srv, tables>>

ContactsGetTags(i, contactId) ==
  /\ CanStart(i)
  /\ HttpCall(i, "contacts.getTags", [NoArgs EXCEPT !.id = contactId], "get",
              ContactPath(contactId) \o "/tags", NoPayload, NoPayload, TRUE)
  /\ UNCHANGED <<debug, client, reg, toggled, srv, tables>>

ContactsAddTags(i, contactId, tags) ==
  /\ CanStart(i)
  /\ HttpCall(i, "contacts.addTags", [NoArgs EXCEPT !.id = contactId, !.payload = tags], "put",
              ContactPath(contactId) \o "/tags", tags, NoPayload, TRUE)
  /\ UNCHANGED <<debug, client, reg, toggled, srv, tables>>

ContactsRemoveTags(i, contactId, tagNames) ==
  /\ CanStart(i)
  /\ HttpCall(i, "contacts.removeTags", [NoArgs EXCEPT !.id = contactId, !.payload = tagNames], "delete",
              ContactPath(contactId) \o "/tags", tagNames, NoPayload, TRUE)
  /\ UNCHANGED <<debug, client, reg, toggled, srv, tables>>

ContactsGetListingViews(i, contactId) ==
  /\ CanStart(i)
  /\ HttpCall(i, "contacts.getListingViews", [NoArgs EXCEPT !.id = contactId], "get",
              ContactPath(contactId) \o "/listingviews", NoPayload, NoPayload, TRUE)
  /\ UNCHANGED <<debug, client, reg, toggled, srv, tables>>

ContactsGetMarketReports(i, contactId) ==
  /\ CanStart(i)
  /\ HttpCall(i, "contacts.getMarketReports", [NoArgs EXCEPT !.id = contactId], "get",
              ContactPath(contactId) \o "/marketreport", NoPayload, NoPayload, TRUE)
  /\ UNCHANGED <<debug, client, reg, toggled, srv, tables>>

\* Faulty variant: the email is posted to the contact itself.
ContactsSendEmail_PostToContact(i, contactId, emailData) ==
  /\ CanStart(i)
  /\ HttpCall(i, "contacts.sendEmail", [NoArgs EXCEPT !.id = contactId, !.payload = emailData], "post",
              ContactPath(contactId), emailData, NoPayload, TRUE)
  /\ UNCHANGED <<debug, client, reg, toggled, srv, tables>>

ContactsSendEmail(i, contactId, emailData) ==
  /\ CanStart(i)
  /\ HttpCall(i, "contacts.sendEmail", [NoArgs EXCEPT !.id = contactId, !.payload = emailData], "put",
              ContactPath(contactId) \o "/email", emailData, NoPayload, TRUE)
  /\ UNCHANGED <<debug, client, reg, toggled, srv, tables>>

ContactsSendText(i, contactId, textData) ==
  /\ CanStart(i)
  /\ HttpCall(i, "contacts.sendText", [NoArgs EXCEPT !.id = contactId, !.payload = textData], "put",
              ContactPath(contactId) \o "/text", textData, NoPayload, TRUE)
  /\ UNCHANGED <<debug, client, reg, toggled, srv, tables>>

ContactsAskQuestion(i, contactId, questionData) ==
  /\ CanStart(i)
  /\ HttpCall(i, "contacts.askQuestion", [NoArgs EXCEPT !.id = contactId, !.payload = questionData], "post",
              ContactPath(contactId) \o "/question", questionData, NoPayload, TRUE)
  /\ UNCHANGED <<debug, client, reg, toggled, srv, tables>>

ContactsRequestAppointment(i, contactId, appointmentData) ==
  /\ CanStart(i)
  /\ HttpCall(i, "contacts.requestAppointment", [NoArgs EXCEPT !.id = contactId, !.payload = appointmentData], "post",
              ContactPath(contactId) \o "/appointment", appointmentData, NoPayload, TRUE)
  /\ UNCHANGED <<debug, client, reg, toggled, srv, tables>>

(***************************************************************************)
(* NotesAPI                                                                *)
(***************************************************************************)
NotesList(i, contactId) ==
  /\ CanStart(i)
  /\ HttpCall(i, "notes.list", [NoArgs EXCEPT !.id = contactId], "get",
              ContactPath(contactId) \o "/action/note", NoPayload, NoPayload, TRUE)
  /\ UNCHANGED <<debug, client, reg, toggled, srv, tables>>

NotesGet(i, contactId, actionId) ==
  /\ CanStart(i)
  /\ HttpCall(i, "notes.get", [NoArgs EXCEPT !.id = contactId, !.id2 = actionId], "get",
              ContactPath(contactId) \o "/action/note/" \o JsToString(actionId), NoPayload, NoPayload, TRUE)
  /\ UNCHANGED <<debug, client, reg, toggled, srv, tables>>

NotesCreate(i, contactId, noteData) ==
  /\ CanStart(i)
  /\ HttpCall(i, "notes.create", [NoArgs EXCEPT !.id = contactId, !.payload = noteData], "put",
              ContactPath(contactId) \o "/action/note", noteData, NoPayload, TRUE)
  /\ UNCHANGED <<debug, client, reg, toggled, srv, tables>>

NotesUpdate(i, contactId, actionId, noteData) ==
  /\ CanStart(i)
  /\ HttpCall(i, "notes.update", [id |-> contactId, id2 |-> actionId, payload |-> noteData], "put",
              ContactPath(contactId) \o "/action/note/" \o JsToString(actionId), noteData, NoPayload, TRUE)
  /\ UNCHANGED <<debug, client, reg, toggled, srv, tables>>

(***************************************************************************)
(* KVCoreClient: the transport and its interceptors.                       *)
(***************************************************************************)
SuccessStatuses == {200}

ErrorStatuses == {404, 500}

SuccessBodies == {DataObject(Num(1), Undefined, Undefined), DataNull}

ErrorBodies ==
  {DataNull, DataString(""), DataString("Bad Gateway")}
  \cup {DataObject(Undefined, m, e) :
          m \in {Undefined, Str(""), Str("Not found")},
          e \in {Undefined, Str("Bad request")}}

NoResponseMessages == {"timeout of 30000ms exceeded", "Network Error"}

SetupMessages == {"Invalid URL"}

ConfigInputs ==
  {NoPayload,
   EmptyConfig,
   [EmptyConfig EXCEPT !.bearerToken = Str("")],
   [EmptyConfig EXCEPT !.bearerToken = Null],
   [EmptyConfig EXCEPT !.bearerToken = Str("tok-A")],
   [k |-> "object", baseURL |-> Str("https://crm.test/v2"), timeout |-> Num(5000),
    bearerToken |-> Str("tok-B")]}

\* Faulty variant: with debug set the interceptor writes the log prefix into
\* the request it passes on.
RequestInterceptor_LogRewritesUrl(i) ==
  /\ calls[i].phase = "queued"
  /\ calls' = [calls EXCEPT ![i].phase = "sent", ![i].reqLogged = debug,
                            ![i].req.url = IF debug THEN "[KVCore] " \o calls[i].req.url
                                                    ELSE calls[i].req.url]
  /\ UNCHANGED <<debug, client, reg, toggled, srv, tables>>

\* Request interceptor: logs when the debug flag is set, passes the request on.
RequestInterceptor(i) ==
  /\ calls[i].phase = "queued"
  /\ calls' = [calls EXCEPT ![i].phase = "sent", ![i].reqLogged = debug]
  /\ UNCHANGED <<debug, client, reg, toggled, srv, tables>>

\* Faulty variant: the mediator method keeps the whole response, not its body.
ResponseFulfilled_WholeResponse(i, status, data) ==
  /\ calls[i].phase = "sent"
  /\ calls' = [calls EXCEPT ![i].phase = "resolved", ![i].resLogged = debug,
                            ![i].upstream = [NoAnswer EXCEPT !.kind = "success",
                                               !.status = status, !.data = data],
                            ![i].value = IF calls[i].returnsData
                                           THEN [data EXCEPT !.k = "response"]
                                           ELSE NoData]
  /\ UNCHANGED <<debug, client, reg, toggled, srv, tables>>

\* Faulty variant: one shared "current response": the answer to one request
\* settles every call that is waiting.
ResponseFulfilled_SharedResponse(i, status, data) ==
  /\ calls[i].phase = "sent"
  /\ calls' = [j \in Slots |->
                IF calls[j].phase = "sent"
                  THEN [calls[j] EXCEPT !.phase = "resolved", !.resLogged = debug,
                                        !.upstream = [NoAnswer EXCEPT !.kind = "success",
                                                        !.status = status, !.data = data],
                                        !.value = IF calls[j].returnsData THEN data ELSE NoData]
                  ELSE calls[j]]
  /\ UNCHANGED <<debug, client, reg, toggled, srv, tables>>

\* The upstream answered 2xx: the response interceptor logs when the debug
\* flag is set and returns the response; the mediator method destructures
\* {data} and returns it (or returns nothing).
ResponseFulfilled(i, status, data) ==
  /\ calls[i].phase = "sent"
  /\ calls' = [calls EXCEPT ![i].phase = "resolved", ![i].resLogged = debug,
                            ![i].upstream = [NoAnswer EXCEPT !.kind = "success",
                                               !.status = status, !.data = data],
                            ![i].value = IF calls[i].returnsData THEN data ELSE NoData]
  /\ UNCHANGED <<debug, client, reg, toggled, srv, tables>>

\* Faulty variant: the error response is logged when the request was logged.
ResponseRejected_LogsAsRequest(i, status, data) ==
  /\ calls[i].phase = "sent"
  /\ calls' = [calls EXCEPT ![i].phase = "rejected", ![i].resLogged = calls[i].reqLogged,
                            ![i].upstream = [NoAnswer EXCEPT !.kind = "status",
                                               !.status = status, !.data = data],
                            ![i].err = responseErrorInterceptor(HttpStatusError(status, data))]
  /\ UNCHANGED <<debug, client, reg, toggled, srv, tables>>

\* Faulty variant: a 404 is swallowed and the operation resolves with null.
ResponseRejected_NotFoundAsNull(i, status, data) ==
  /\ calls[i].phase = "sent"
  /\ IF status = 404
       THEN calls' = [calls EXCEPT ![i].phase = "resolved", ![i].resLogged = debug,
                                   ![i].upstream = [NoAnswer EXCEPT !.kind = "status",
                                                      !.status = status, !.data = data],
                                   ![i].value = DataNull]
       ELSE calls' = [calls EXCEPT ![i].phase = "rejected", ![i].resLogged = debug,
                                   ![i].upstream = [NoAnswer EXCEPT !.kind = "status",
                                                      !.status = status, !.data = data],
                                   ![i].err = responseErrorInterceptor(HttpStatusError(status, data))]
  /\ UNCHANGED <<debug, client, reg, toggled, srv, tables>>

\* The upstream answered outside 2xx: the error handler of the response
\* interceptor runs; the mediator method has no catch, so the awaiting
\* caller gets the interceptor's rejection.
ResponseRejected(i, status, data) ==
  /\ calls[i].phase = "sent"
  /\ calls' = [calls EXCEPT ![i].phase = "rejected", ![i].resLogged = debug,
                            ![i].upstream = [NoAnswer EXCEPT !.kind = "status",
                                               !.status = status, !.data = data],
                            ![i].err = responseErrorInterceptor(HttpStatusError(status, data))]
  /\ UNCHANGED <<debug, client, reg, toggled, srv, tables>>

\* Faulty variant: a request that got no response is issued once more before
\* the failure is surfaced.
NoResponseReceived_Retry(i, message) ==
  /\ calls[i].phase = "sent"
  /\ IF calls[i].invoked < 2
       THEN calls' = [calls EXCEPT ![i].phase = "queued",
                                   ![i].invoked = calls[i].invoked + 1]
       ELSE calls' = [calls EXCEPT ![i].phase = "rejected",
                                   ![i].upstream = [NoAnswer EXCEPT !.kind = "noresponse",
                                                      !.message = message],
                                   ![i].err = responseErrorInterceptor(NoResponseError(message))]
  /\ UNCHANGED <<debug, client, reg, toggled, srv, tables>>

\* The request was sent and no response arrived (network failure, timeout).
NoResponseReceived(i, message) ==
  /\ calls[i].phase = "sent"
  /\ calls' = [calls EXCEPT ![i].phase = "rejected",
                            ![i].upstream = [NoAnswer EXCEPT !.kind = "noresponse",
                                               !.message = message],
                            ![i].err = responseErrorInterceptor(NoResponseError(message))]
  /\ UNCHANGED <<debug, client, reg, toggled, srv, tables>>

\* The request could not be set up: after the request interceptor has run,
\* dispatch fails with an error that has neither response nor request.
RequestSetupFailed(i, message) ==
  /\ calls[i].phase = "sent"
  /\ calls' = [calls EXCEPT ![i].phase = "rejected",
                            ![i].upstream = [NoAnswer EXCEPT !.kind = "setup",
                                               !.message = message],
                            ![i].err = responseErrorInterceptor(SetupError(message))]
  /\ UNCHANGED <<debug, client, reg, toggled, srv, tables>>

\* The awaiting caller takes the settled result (the value returned by
\* await, or the error caught) and lets the promise go.
Release(i) ==
  /\ calls[i].phase \in {"resolved", "rejected"}
  /\ calls' = [calls EXCEPT ![i] = IdleCall]
  /\ UNCHANGED <<debug, client, reg, toggled, srv, tables>>

\* Faulty variant: the switch flips the flag.
enableDebug_Flip ==
  /\ client.state = "ready"
  /\ debug' = ~debug
  /\ toggled' = [op |-> "enableDebug", repeated |-> toggled.op = "enableDebug"]
  /\ UNCHANGED <<calls, client, reg, srv, tables>>

enableDebug ==
  /\ client.state = "ready"
  /\ debug' = TRUE
  /\ toggled' = [op |-> "enableDebug", repeated |-> toggled.op = "enableDebug"]
  /\ UNCHANGED <<calls, client, reg, srv, tables>>

\* Faulty variant: switching logging off rebuilds the transport with the
\* default base URL and timeout.
disableDebug_RebuildsTransport ==
  /\ client.state = "ready"
  /\ debug' = FALSE
  /\ toggled' = [op |-> "disableDebug", repeated |-> toggled.op = "disableDebug"]
  /\ client' = [client EXCEPT !.http.baseURL = DefaultBaseURL,
                              !.http.timeout = DefaultTimeout]
  /\ UNCHANGED <<calls, reg, srv, tables>>

disableDebug ==
  /\ client.state = "ready"
  /\ debug' = FALSE
  /\ toggled' = [op |-> "disableDebug", repeated |-> toggled.op = "disableDebug"]
  /\ UNCHANGED <<calls, client, reg, srv, tables>>

(***************************************************************************)
(* Specification.                                                          *)
(***************************************************************************)
Next ==
  \/ \E c \in ConfigInputs : Construct(c)
  \/ \E i \in SeqSlots, c \in ContactIds : CallsList(i, c)
  \/ \E i \in SeqSlots, c \in ContactIds, a \in ActionIds : CallsGet(i, c, a)
  \/ \E i \in SeqSlots, c \in ContactIds, d \in CallDataInputs : CallsCreate(i, c, d)
  \/ \E i \in SeqSlots, c \in ContactIds, a \in ActionIds, d \in CallDataInputs :
       CallsUpdate(i, c, a, d)
  \/ \E i \in SeqSlots, c \in ContactIds : SearchAlertsList(i, c)
  \/ \E i \in SeqSlots, c \in ContactIds, d \in AlertDataInputs : SearchAlertsCreate(i, c, d)
  \/ \E i \in SeqSlots, c \in ContactIds, n \in AlertNumberInputs, d \in AlertDataInputs :
       SearchAlertsUpdate(i, c, n, d)
  \/ \E i \in SeqSlots, c \in ContactIds, n \in AlertNumberInputs : SearchAlertsDelete(i, c, n)
  \/ \E i \in SeqSlots, c \in ContactIds, n \in AlertNumberInputs : SearchAlertsSend(i, c, n)
  \/ \E i \in SeqSlots, c \in ContactIds, n \in AlertNumberInputs : SearchAlertsGetRecent(i, c, n)
  \/ \E i \in SeqSlots, d \in ScheduleCallInputs : MiscScheduleCall(i, d)
  \/ \E i \in SeqSlots, d \in ViewDataInputs : MiscAddListingView(i, d)
  \/ \E i \in SeqSlots, f \in FilterInputs : ContactsList(i, f)
  \/ \E i \in SeqSlots, c \in ContactIds : ContactsGet(i, c)
  \/ \E i \in SeqSlots, d \in ContactDataInputs : ContactsCreate(i, d)
  \/ \E i \in SeqSlots, c \in ContactIds, d \in ContactDataInputs : ContactsUpdate(i, c, d)
  \/ \E i \in SeqSlots, c \in ContactIds : ContactsDelete(i, c)
  \/ \E i \in SeqSlots, c \in ContactIds : ContactsGetTags(i, c)
  \/ \E i \in SeqSlots, c \in ContactIds, t \in TagsInputs : ContactsAddTags(i, c, t)
  \/ \E i \in SeqSlots, c \in ContactIds, t \in TagsInputs : ContactsRemoveTags(i, c, t)
  \/ \E i \in SeqSlots, c \in ContactIds : ContactsGetListingViews(i, c)
  \/ \E i \in SeqSlots, c \in ContactIds : ContactsGetMarketReports(i, c)
  \/ \E i \in SeqSlots, c \in ContactIds, d \in EmailDataInputs : ContactsSendEmail(i, c, d)
  \/ \E i \in SeqSlots, c \in ContactIds, d \in TextDataInputs : ContactsSendText(i, c, d)
  \/ \E i \in SeqSlots, c \in ContactIds, d \in QuestionDataInputs : ContactsAskQuestion(i, c, d)
  \/ \E i \in SeqSlots, c \in ContactIds, d \in QuestionDataInputs :
       ContactsRequestAppointment(i, c, d)
  \/ \E i \in SeqSlots, c \in ContactIds : NotesList(i, c)
  \/ \E i \in SeqSlots, c \in ContactIds, a \in ActionIds : NotesGet(i, c, a)
  \/ \E i \in SeqSlots, c \in ContactIds, d \in NoteDataInputs : NotesCreate(i, c, d)
  \/ \E i \in SeqSlots, c \in ContactIds, a \in ActionIds, d \in NoteDataInputs :
       NotesUpdate(i, c, a, d)
  \/ \E i \in SeqSlots : RequestInterceptor(i)
  \/ \E i \in SeqSlots, st \in SuccessStatuses, b \in SuccessBodies : ResponseFulfilled(i, st, b)
  \/ \E i \in SeqSlots, st \in ErrorStatuses, b \in ErrorBodies : ResponseRejected(i, st, b)
  \/ \E i \in SeqSlots, m \in NoResponseMessages : NoResponseReceived(i, m)
  \/ \E i \in SeqSlots, m \in SetupMessages : RequestSetupFailed(i, m)
  \/ \E i \in SeqSlots : Release(i)
  \/ enableDebug
  \/ disableDebug

Spec == Init /\ [][Next]_vars

(***************************************************************************)
(* Concurrent callers: the caller starts calls on one client without       *)
(* awaiting the earlier ones, so up to MaxCalls promises are pending at    *)
(* once and the transport answers them in any order.                       *)
(***************************************************************************)
ConcConfigs == {[EmptyConfig EXCEPT !.bearerToken = Str("tok-A")]}

ConcContactIds == {Num(42)}

ConcCallDataInputs ==
  {[k |-> "object", date |-> Str("2024-05-01"), result |-> Num(1), direction |-> Str("outbound")],
   [k |-> "object", date |-> Str("2024-05-01"), result |-> Num(9), direction |-> Undefined]}

ConcSuccessBodies == {DataObject(Num(1), Undefined, Undefined)}

ConcErrorStatuses == {404}

ConcErrorBodies == {DataNull, DataObject(Undefined, Str("Not found"), Undefined)}

ConcNoResponseMessages == {"Network Error"}

NextConc ==
  \/ \E c \in ConcConfigs : Construct(c)
  \/ \E i \in Slots, c \in ConcContactIds : ContactsGet(i, c)
  \/ \E i \in Slots, c \in ConcContactIds, d \in ConcCallDataInputs : CallsCreate(i, c, d)
  \/ \E i \in Slots : RequestInterceptor(i)
  \/ \E i \in Slots, st \in SuccessStatuses, b \in ConcSuccessBodies : ResponseFulfilled(i, st, b)
  \/ \E i \in Slots, st \in ConcErrorStatuses, b \in ConcErrorBodies : ResponseRejected(i, st, b)
  \/ \E i \in Slots, m \in ConcNoResponseMessages : NoResponseReceived(i, m)
  \/ \E i \in Slots, m \in SetupMessages : RequestSetupFailed(i, m)
  \/ \E i \in Slots : Release(i)
  \/ enableDebug
  \/ disableDebug

SpecConc == Init /\ [][NextConc]_vars

(***************************************************************************)
(* Termination: the transport's timeout.  The HTTP library arms a timer of *)
(* this.http's timeout for every request it sends (0 would mean no timer)  *)
(* and fails the request when the timer fires before an answer came.       *)
(***************************************************************************)
TimeoutMessage(ms) == "timeout of " \o IntToString(ms) \o "ms exceeded"

TimeoutExceeded(i) ==
  /\ client.http.timeout > 0
  /\ NoResponseReceived(i, TimeoutMessage(client.http.timeout))

LiveConfigs ==
  {[EmptyConfig EXCEPT !.bearerToken = Str("tok-A")],
   [EmptyConfig EXCEPT !.bearerToken = Str("tok-A"), !.timeout = Num(0)],
   [EmptyConfig EXCEPT !.bearerToken = Str("tok-B"), !.timeout = Num(5000)]}

NextLive ==
  \/ \E c \in LiveConfigs : Construct(c)
  \/ \E i \in SeqSlots, c \in ContactIds : ContactsGet(i, c)
  \/ \E i \in SeqSlots, c \in ConcContactIds, d \in ConcCallDataInputs : CallsCreate(i, c, d)
  \/ \E i \in SeqSlots : RequestInterceptor(i)
  \/ \E i \in SeqSlots, st \in SuccessStatuses, b \in ConcSuccessBodies : ResponseFulfilled(i, st, b)
  \/ \E i \in SeqSlots, st \in ConcErrorStatuses, b \in ConcErrorBodies : ResponseRejected(i, st, b)
  \/ \E i \in SeqSlots, m \in ConcNoResponseMessages : NoResponseReceived(i, m)
  \/ \E i \in SeqSlots, m \in SetupMessages : RequestSetupFailed(i, m)
  \/ \E i \in SeqSlots : TimeoutExceeded(i)
  \/ \E i \in SeqSlots : Release(i)
  \/ enableDebug
  \/ disableDebug

\* The request interceptor runs as soon as the call has been made (promise
\* job), and the timer of a sent request fires unless the request ended
\* before.
LiveFairness ==
  \A i \in SeqSlots : WF_vars(RequestInterceptor(i)) /\ WF_vars(TimeoutExceeded(i))

SpecLive == Init /\ [][NextLive]_vars /\ LiveFairness

(***************************************************************************)
(* Enumeration registry: the helper functions, called by a program that    *)
(* keeps the last two evaluations.                                         *)
(***************************************************************************)
Evaluated(fn, arg, out) ==
  reg' = (IF Len(reg) < 2 THEN reg ELSE Tail(reg)) \o <<[fn |-> fn, arg |-> arg, out |-> out]>>

GetLeadStatusCode(name) ==
  /\ Evaluated("getLeadStatusCode", name, getLeadStatusCode(name))
  /\ UNCHANGED <<debug, calls, client, toggled, srv, tables>>

\* Faulty variant: a code the table lacks is entered in it as 'Unknown'.
GetLeadStatusName_Memoizes(code) ==
  LET key == JsToString(code)
      table == tables.LEAD_STATUS IN
  /\ Evaluated("getLeadStatusName", code, getLeadStatusName(code))
  /\ tables' = IF getLeadStatusName(code) = Undefined
                 THEN [tables EXCEPT !.LEAD_STATUS =
                         [c \in DOMAIN table \cup {key} |->
                            IF c \in DOMAIN table THEN table[c] ELSE "Unknown"]]
                 ELSE tables
  /\ UNCHANGED <<debug, calls, client, toggled, srv>>

GetLeadStatusName(code) ==
  /\ Evaluated("getLeadStatusName", code, getLeadStatusName(code))
  /\ UNCHANGED <<debug, calls, client, toggled, srv, tables>>

LeadStatusLabels == {Str(LEAD_STATUS[key]) : key \in DOMAIN LEAD_STATUS}

NameInputs ==
  LeadStatusLabels
  \cup {Str("new"), Str("Lead"), Str(""), Str("0"), Undefined, Null, Num(0)}

CodeInputs ==
  {Num(n) : n \in -1..8}
  \cup {Str("0"), Str("7"), Str("8"), Str("New"), Str("toString"), Undefined, Null}

IsValidCallResult(code) ==
  /\ Evaluated("isValidCallResult", code, Bool(isValidCallResult(code)))
  /\ UNCHANGED <<debug, calls, client, toggled, srv, tables>>

IsValidCallDirection(direction) ==
  /\ Evaluated("isValidCallDirection", direction, Bool(isValidCallDirection(direction)))
  /\ UNCHANGED <<debug, calls, client, toggled, srv, tables>>

IsValidSearchAlertNumber(number) ==
  /\ Evaluated("isValidSearchAlertNumber", number, Bool(isValidSearchAlertNumber(number)))
  /\ UNCHANGED <<debug, calls, client, toggled, srv, tables>>

MemberInputs ==
  {Num(n) : n \in 0..MaxCode}
  \cup {Str("1"), Str("2"), Str("outbound"), Str("inbound"), Str("Outbound"),
        Str(""), Str("toString"), Str("constructor"), Undefined, Null, NaN, Bool(TRUE)}

\* The codes getLeadStatusCode returned in the evaluations kept.
ReturnedCodes == {reg[k].out : k \in {k \in DOMAIN reg : reg[k].fn = "getLeadStatusCode"}}

NextRegistry ==
  \/ \E name \in NameInputs : GetLeadStatusCode(name)
  \/ \E code \in CodeInputs \cup ReturnedCodes : GetLeadStatusName(code)
  \/ \E code \in MemberInputs : IsValidCallResult(code)
  \/ \E direction \in MemberInputs : IsValidCallDirection(direction)
  \/ \E number \in MemberInputs : IsValidSearchAlertNumber(number)

SpecRegistry == Init /\ [][NextRegistry]_vars

(***************************************************************************)
(* The library as a whole: a program that constructs a client, calls       *)
(* mediators, toggles logging and uses the registry helpers in any order.  *)
(***************************************************************************)
LibNameInputs == {Str("New"), Str("new")}

LibCodeInputs == {Num(1), Num(8)}

LibMemberInputs == {Num(1), Str("outbound")}

NextLibrary ==
  \/ \E c \in LiveConfigs : Construct(c)
  \/ \E i \in SeqSlots, c \in ContactIds : ContactsGet(i, c)
  \/ \E i \in SeqSlots, c \in ConcContactIds, d \in ConcCallDataInputs : CallsCreate(i, c, d)
  \/ \E i \in SeqSlots : RequestInterceptor(i)
  \/ \E i \in SeqSlots, st \in SuccessStatuses, b \in ConcSuccessBodies : ResponseFulfilled(i, st, b)
  \/ \E i \in SeqSlots, st \in ConcErrorStatuses, b \in ConcErrorBodies : ResponseRejected(i, st, b)
  \/ \E i \in SeqSlots, m \in ConcNoResponseMessages : NoResponseReceived(i, m)
  \/ \E i \in SeqSlots, m \in SetupMessages : RequestSetupFailed(i, m)
  \/ \E i \in SeqSlots : Release(i)
  \/ enableDebug
  \/ disableDebug
  \/ \E name \in LibNameInputs : GetLeadStatusCode(name)
  \/ \E code \in LibCodeInputs : GetLeadStatusName(code)
  \/ \E code \in LibMemberInputs : IsValidCallResult(code)
  \/ \E direction \in LibMemberInputs : IsValidCallDirection(direction)
  \/ \E number \in LibMemberInputs : IsValidSearchAlertNumber(number)

SpecLibrary == Init /\ [][NextLibrary]_vars

(***************************************************************************)
(* Server adapter: the module-level axios client of kvcoreClient.js and    *)
(* the express route handlers that call it.                                *)
(***************************************************************************)
\* The headers of the server's client, its token read from the environment.
ServerHeaders ==
  [Accept |-> "application/json", ContentType |-> "application/json",
   Authorization |-> "Bearer " \o "env-token"]

\* The value of c as a digit: 0..9, and a..z or A..Z from 10 on as far as
\* a radix of 16 needs them.
DigitValue(c) ==
  CASE c = "0" -> 0 [] c = "1" -> 1 [] c = "2" -> 2 [] c = "3" -> 3 [] c = "4" -> 4
    [] c = "5" -> 5 [] c = "6" -> 6 [] c = "7" -> 7 [] c = "8" -> 8 [] c = "9" -> 9
    [] c \in {"a", "A"} -> 10 [] c \in {"b", "B"} -> 11 [] c \in {"c", "C"} -> 12
    [] c \in {"d", "D"} -> 13 [] c \in {"e", "E"} -> 14 [] c \in {"f", "F"} -> 15
    [] OTHER -> 36

\* c is a digit of the radix.
IsDigit(c, radix) == DigitValue(c) < radix

\* The digits of the radix at the front of text, read as a number; NaN when
\* there is none.
RECURSIVE ParseDigits(_, _, _, _)
ParseDigits(text, radix, acc, seen) ==
  IF text = "" \/ ~IsDigit(SubSeq(text, 1, 1), radix)
    THEN IF seen THEN Num(acc) ELSE NaN
    ELSE ParseDigits(Tail(text), radix, acc * radix + DigitValue(SubSeq(text, 1, 1)), TRUE)

\* StrWhiteSpaceChar: the white space and line terminators parseInt skips:
\* tab, line feed, vertical tab, form feed, carriage return, space,
\* no-break space, ogham space mark and the byte order mark.  (It skips the
\* other Unicode spaces U+2000..U+200A, U+2028, U+2029, U+202F, U+205F and
\* U+3000 as well; a string here cannot hold them.)
StrWhiteSpaceChar ==
  {" ", "\t", "\n", "\r", "\f", "", " ", " ", "﻿"}

RECURSIVE TrimStart(_)
TrimStart(text) ==
  IF text # "" /\ SubSeq(text, 1, 1) \in StrWhiteSpaceChar
    THEN TrimStart(Tail(text))
    ELSE text

\* parseInt(text, radix), radix 10 as the routes pass it or 0 when the
\* caller passes none: leading blanks skipped, an optional sign, then the
\* longest run of digits; whatever follows the digits is ignored.  Without
\* a radix (and with 16) a prefix 0x or 0X is dropped and the digits are
\* hexadecimal; without a radix and without the prefix they are decimal.
parseInt(text, radix) ==
  LET t == TrimStart(text)
      negative == t # "" /\ SubSeq(t, 1, 1) = "-"
      signed == t # "" /\ SubSeq(t, 1, 1) \in {"-", "+"}
      s == IF signed THEN Tail(t) ELSE t
      prefixed == /\ radix \in {0, 16}
                  /\ Len(s) >= 2
                  /\ SubSeq(s, 1, 2) \in {"0x", "0X"}
      m == IF prefixed
             THEN ParseDigits(SubSeq(s, 3, Len(s)), 16, 0, FALSE)
             ELSE ParseDigits(s, IF radix = 0 THEN 10 ELSE radix, 0, FALSE)
  IN IF m = NaN THEN NaN ELSE IF negative THEN Num(-m.n) ELSE m

\* The environment the server process is started in.
NoEnv ==
  [KVCORE_BASE_URL |-> Undefined, KVCORE_BEARER_TOKEN |-> Undefined,
   RATE_LIMIT_MAX_REQUESTS |-> Undefined, NODE_ENV |-> Undefined]

DefaultMaxRequests == 100

\* max: parseInt(process.env.RATE_LIMIT_MAX_REQUESTS) || 100
RateLimitMax(env) ==
  JsOr(parseInt(JsToString(env.RATE_LIMIT_MAX_REQUESTS), 0), Num(DefaultMaxRequests)).n

\* node server.js: loading kvcoreClient.js throws when the base URL or the
\* token is not in the environment; else the limiter is configured and the
\* application listens.
ServerStart(env) ==
  /\ srv.phase = "down"
  /\ srv' = IF ~Truthy(env.KVCORE_BASE_URL)
              THEN [ServerDown EXCEPT !.phase = "failed",
                      !.err = NewError("Error", Str("KVCORE_BASE_URL environment variable is required"))]
              ELSE IF ~Truthy(env.KVCORE_BEARER_TOKEN)
                THEN [ServerDown EXCEPT !.phase = "failed",
                        !.err = NewError("Error", Str("KVCORE_BEARER_TOKEN environment variable is required"))]
                ELSE [ServerDown EXCEPT !.phase = "listening",
                                        !.limit = RateLimitMax(env),
                                        !.development = (env.NODE_ENV = Str("development"))]
  /\ UNCHANGED <<debug, calls, client, reg, toggled, tables>>

\* A request arrives and is taken in hand as h.
CanHandle(h) ==
  /\ srv.phase = "listening"
  /\ srv.requests[h].phase = "idle"
  /\ srv.hits < MaxHits

\* The limiter's answer: res.status(429).send(message).
TooManyRequests ==
  [IdleHandler EXCEPT !.route = "(limiter)", !.phase = "responded",
                      !.res = [NoReply EXCEPT !.status = 429, !.kind = "json",
                                 !.error = Str("Too many requests from this IP, please try again later.")]]

\* app.use(limiter): the request is counted; it is answered 429 when the
\* count is over the limit, else it goes on to the handler, which leaves it
\* as handled.
Limiter(h, handled) ==
  srv' = [srv EXCEPT !.hits = @ + 1,
                     !.requests[h] = IF srv.hits + 1 > srv.limit
                                       THEN TooManyRequests
                                       ELSE handled]

\* The window of the limiter is over: its count starts again.
WindowElapsed ==
  /\ srv.phase = "listening"
  /\ srv.hits > 0
  /\ srv' = [srv EXCEPT !.hits = 0]
  /\ UNCHANGED <<debug, calls, client, reg, toggled, tables>>

\* return res.status(400).json({error: message})
Reply400(h, route, params, query, body, message) ==
  Limiter(h, [IdleHandler EXCEPT !.route = route, !.phase = "responded", !.params = params,
                          !.query = query, !.body = body,
                          !.res = [NoReply EXCEPT !.status = 400, !.kind = "json",
                                                  !.error = Str(message)]])

\* await client.<method>(url, data, {params}): the upstream request is made
\* once; okStatus and sendsData are what the handler answers when it
\* succeeds (res.json(data), res.status(201).json(data), res.status(204).send()).
Forward(h, route, params, query, body, method, url, data, okStatus, sendsData) ==
  Limiter(h, [IdleHandler EXCEPT !.route = route, !.phase = "awaiting", !.params = params,
                          !.query = query, !.body = body, !.invoked = 1,
                          !.okStatus = okStatus, !.sendsData = sendsData,
                          !.req = [method |-> method, url |-> url, data |-> data,
                                   params |-> query, headers |-> ServerHeaders]])

(***************************************************************************)
(* server.js: the handlers registered outside the routers.                 *)
(***************************************************************************)
HealthBody(timestamp) ==
  [k |-> "object", status |-> Str("ok"), timestamp |-> Str(timestamp),
   service |-> Str("kvcore-integration"), version |-> Str("1.0.0")]

\* app.get('/health')
RouteHealth(h, timestamp) ==
  /\ CanHandle(h)
  /\ Limiter(h, [IdleHandler EXCEPT !.route = "GET /health", !.phase = "responded",
                             !.res = [NoReply EXCEPT !.status = 200, !.kind = "json",
                                                     !.data = HealthBody(timestamp)]])
  /\ UNCHANGED <<debug, calls, client, reg, toggled, tables>>

RootBody ==
  [k |-> "object", message |-> Str("KVCore Integration API"), version |-> Str("1.0.0"),
   documentation |-> Str("See README.md for API documentation"),
   endpoints |-> [contacts |-> "/contacts",
                  notes |-> "/contacts/:contactId/notes",
                  calls |-> "/contacts/:contactId/calls",
                  searchAlerts |-> "/contacts/:contactId/searchalerts",
                  scheduleCall |-> "/schedule-call",
                  views |-> "/views",
                  health |-> "/health"]]

\* app.get('/')
RouteRoot(h) ==
  /\ CanHandle(h)
  /\ Limiter(h, [IdleHandler EXCEPT !.route = "GET /", !.phase = "responded",
                             !.res = [NoReply EXCEPT !.status = 200, !.kind = "json",
                                                     !.data = RootBody]])
  /\ UNCHANGED <<debug, calls, client, reg, toggled, tables>>

\* The 404 handler: a request no route matched.
RouteNotFound(h, method, path, timestamp) ==
  /\ CanHandle(h)
  /\ Limiter(h, [IdleHandler EXCEPT !.route = "(not found)", !.phase = "responded",
                             !.res = [NoReply EXCEPT
                                        !.status = 404, !.kind = "json",
                                        !.error = Str("Not Found"),
                                        !.message = Str("Cannot " \o method \o " " \o path),
                                        !.timestamp = Str(timestamp)]])
  /\ UNCHANGED <<debug, calls, client, reg, toggled, tables>>

\* The global error handler, reached when a middleware passes an error on.
\* express.json() runs before the limiter: a body it cannot take is not
\* counted.  The routers run after it: a path parameter they cannot decode
\* is the error of a counted request, which the limiter may have answered.
ErrorHandler(h, err, counted) ==
  LET handled ==
        [IdleHandler EXCEPT
           !.route = "(error handler)", !.phase = "responded", !.err = err,
           !.res = [NoReply EXCEPT
                      !.status = JsOr(err.statusCode, Num(500)).n, !.kind = "json",
                      !.error = JsOr(err.message, Str("Internal Server Error")),
                      !.stack = srv.development]]
  IN /\ IF counted
          THEN CanHandle(h) /\ Limiter(h, handled)
          ELSE /\ srv.phase = "listening"
               /\ srv.requests[h].phase = "idle"
               /\ srv' = [srv EXCEPT !.requests[h] = handled]
     /\ UNCHANGED <<debug, calls, client, reg, toggled, tables>>

ServerContactPath(params) == "/contact/" \o params.contactId

(***************************************************************************)
(* routes/calls.js, mounted at /contacts/:contactId/calls                  *)
(***************************************************************************)
RouteCallsList(h, contactId) ==
  LET params == [NoParams EXCEPT !.contactId = contactId] IN
  /\ CanHandle(h)
  /\ Forward(h, "GET /contacts/:contactId/calls", params, NoPayload, NoPayload, "get",
             ServerContactPath(params) \o "/action/call", NoPayload, 200, TRUE)
  /\ UNCHANGED <<debug, calls, client, reg, toggled, tables>>

RouteCallsCreate(h, contactId, payload) ==
  LET params == [NoParams EXCEPT !.contactId = contactId]
      route == "PUT /contacts/:contactId/calls" IN
  /\ CanHandle(h)
  /\ IF Truthy(payload.result) /\ ~isValidCallResult(payload.result)
       THEN Reply400(h, route, params, NoPayload, payload,
                     "Invalid call result code. Must be 1 (Bad Number), 2 (Not Home), or 3 (Contacted)")
       ELSE IF Truthy(payload.direction) /\ ~isValidCallDirection(payload.direction)
         THEN Reply400(h, route, params, NoPayload, payload,
                       "Invalid call direction. Must be \"outbound\" or \"inbound\"")
         ELSE Forward(h, route, params, NoPayload, payload, "put",
                      ServerContactPath(params) \o "/action/call", payload, 201, TRUE)
  /\ UNCHANGED <<debug, calls, client, reg, toggled, tables>>

RouteCallsGet(h, contactId, actionId) ==
  LET params == [NoParams EXCEPT !.contactId = contactId, !.actionId = actionId] IN
  /\ CanHandle(h)
  /\ Forward(h, "GET /contacts/:contactId/calls/:actionId", params, NoPayload, NoPayload, "get",
             ServerContactPath(params) \o "/action/call/" \o actionId, NoPayload, 200, TRUE)
  /\ UNCHANGED <<debug, calls, client, reg, toggled, tables>>

RouteCallsUpdate(h, contactId, actionId, payload) ==
  LET params == [NoParams EXCEPT !.contactId = contactId, !.actionId = actionId]
      route == "PUT /contacts/:contactId/calls/:actionId" IN
  /\ CanHandle(h)
  /\ IF Truthy(payload.result) /\ ~isValidCallResult(payload.result)
       THEN Reply400(h, route, params, NoPayload, payload,
                     "Invalid call result code. Must be 1 (Bad Number), 2 (Not Home), or 3 (Contacted)")
       ELSE IF Truthy(payload.direction) /\ ~isValidCallDirection(payload.direction)
         THEN Reply400(h, route, params, NoPayload, payload,
                       "Invalid call direction. Must be \"outbound\" or \"inbound\"")
         ELSE Forward(h, route, params, NoPayload, payload, "put",
                      ServerContactPath(params) \o "/action/call/" \o actionId, payload, 200, TRUE)
  /\ UNCHANGED <<debug, calls, client, reg, toggled, tables>>

(***************************************************************************)
(* routes/searchAlerts.js, mounted at /contacts/:contactId/searchalerts    *)
(***************************************************************************)
ServerAlertPath(params, alertNum) ==
  ServerContactPath(params) \o "/searchalert/" \o JsToString(alertNum)

RouteAlertsList(h, contactId) ==
  LET params == [NoParams EXCEPT !.contactId = contactId] IN
  /\ CanHandle(h)
  /\ Forward(h, "GET /contacts/:contactId/searchalerts", params, NoPayload, NoPayload, "get",
             ServerContactPath(params) \o "/searchalert", NoPayload, 200, TRUE)
  /\ UNCHANGED <<debug, calls, client, reg, toggled, tables>>

RouteAlertsCreate(h, contactId, payload) ==
  LET params == [NoParams EXCEPT !.contactId = contactId]
      route == "POST /contacts/:contactId/searchalerts" IN
  /\ CanHandle(h)
  /\ IF ~Truthy(payload.number) \/ ~isValidSearchAlertNumber(payload.number)
       THEN Reply400(h, route, params, NoPayload, payload, InvalidAlertNumber)
       ELSE Forward(h, route, params, NoPayload, payload, "post",
                    ServerContactPath(params) \o "/searchalert", payload, 201, TRUE)
  /\ UNCHANGED <<debug, calls, client, reg, toggled, tables>>

\* Faulty variant: the path segment is forwarded as it came, unparsed and
\* unchecked.
RouteAlertsUpdate_Unchecked(h, contactId, alertNumber, payload) ==
  LET params == [NoParams EXCEPT !.contactId = contactId, !.alertNumber = alertNumber]
      route == "PUT /contacts/:contactId/searchalerts/:alertNumber" IN
  /\ CanHandle(h)
  /\ Forward(h, route, params, NoPayload, payload, "put",
             ServerContactPath(params) \o "/searchalert/" \o alertNumber, payload, 200, TRUE)
  /\ UNCHANGED <<debug, calls, client, reg, toggled, tables>>

RouteAlertsUpdate(h, contactId, alertNumber, payload) ==
  LET params == [NoParams EXCEPT !.contactId = contactId, !.alertNumber = alertNumber]
      route == "PUT /contacts/:contactId/searchalerts/:alertNumber"
      alertNum == parseInt(alertNumber, 10) IN
  /\ CanHandle(h)
  /\ IF ~isValidSearchAlertNumber(alertNum)
       THEN Reply400(h, route, params, NoPayload, payload, InvalidAlertNumber)
       ELSE Forward(h, route, params, NoPayload, payload, "put",
                    ServerAlertPath(params, alertNum), payload, 200, TRUE)
  /\ UNCHANGED <<debug, calls, client, reg, toggled, tables>>

RouteAlertsDelete(h, contactId, alertNumber) ==
  LET params == [NoParams EXCEPT !.contactId = contactId, !.alertNumber = alertNumber]
      route == "DELETE /contacts/:contactId/searchalerts/:alertNumber"
      alertNum == parseInt(alertNumber, 10) IN
  /\ CanHandle(h)
  /\ IF ~isValidSearchAlertNumber(alertNum)
       THEN Reply400(h, route, params, NoPayload, NoPayload, InvalidAlertNumber)
       ELSE Forward(h, route, params, NoPayload, NoPayload, "delete",
                    ServerAlertPath(params, alertNum), NoPayload, 204, FALSE)
  /\ UNCHANGED <<debug, calls, client, reg, toggled, tables>>

RouteAlertsSend(h, contactId, alertNumber) ==
  LET params == [NoParams EXCEPT !.contactId = contactId, !.alertNumber = alertNumber]
      route == "POST /contacts/:contactId/searchalerts/:alertNumber/send"
      alertNum == parseInt(alertNumber, 10) IN
  /\ CanHandle(h)
  /\ IF ~isValidSearchAlertNumber(alertNum)
       THEN Reply400(h, route, params, NoPayload, NoPayload, InvalidAlertNumber)
       ELSE Forward(h, route, params, NoPayload, NoPayload, "post",
                    ServerAlertPath(params, alertNum) \o "/send", NoPayload, 200, TRUE)
  /\ UNCHANGED <<debug, calls, client, reg, toggled, tables>>

RouteAlertsGetRecent(h, contactId, alertNumber) ==
  LET params == [NoParams EXCEPT !.contactId = contactId, !.alertNumber = alertNumber]
      route == "GET /contacts/:contactId/searchalerts/:alertNumber/recent"
      alertNum == parseInt(alertNumber, 10) IN
  /\ CanHandle(h)
  /\ IF ~isValidSearchAlertNumber(alertNum)
       THEN Reply400(h, route, params, NoPayload, NoPayload, InvalidAlertNumber)
       ELSE Forward(h, route, params, NoPayload, NoPayload, "get",
                    ServerAlertPath(params, alertNum) \o "/recent", NoPayload, 200, TRUE)
  /\ UNCHANGED <<debug, calls, client, reg, toggled, tables>>

(***************************************************************************)
(* The misc router: POST /schedule-call, POST /views                       *)
(***************************************************************************)
RouteScheduleCall(h, payload) ==
  /\ CanHandle(h)
  /\ IF ~Truthy(payload.leadId)
       THEN Reply400(h, "POST /schedule-call", NoParams, NoPayload, payload, "leadId is required")
       ELSE Forward(h, "POST /schedule-call", NoParams, NoPayload, payload, "post",
                    "/schedule-call", payload, 201, TRUE)
  /\ UNCHANGED <<debug, calls, client, reg, toggled, tables>>

RouteViews(h, payload) ==
  /\ CanHandle(h)
  /\ IF ~Truthy(payload.lead_id)
       THEN Reply400(h, "POST /views", NoParams, NoPayload, payload, "lead_id is required")
       ELSE IF ~Truthy(payload.mls_id)
         THEN Reply400(h, "POST /views", NoParams, NoPayload, payload, "mls_id is required")
         ELSE Forward(h, "POST /views", NoParams, NoPayload, payload, "post",
                      "/views", payload, 201, TRUE)
  /\ UNCHANGED <<debug, calls, client, reg, toggled, tables>>

(***************************************************************************)
(* routes/contacts.js, mounted at /contacts                                *)
(***************************************************************************)
RouteContactsList(h, query) ==
  /\ CanHandle(h)
  /\ Forward(h, "GET /contacts", NoParams, query, NoPayload, "get", "/contacts", NoPayload,
             200, TRUE)
  /\ UNCHANGED <<debug, calls, client, reg, toggled, tables>>

RouteContactsGet(h, contactId) ==
  LET params == [NoParams EXCEPT !.contactId = contactId] IN
  /\ CanHandle(h)
  /\ Forward(h, "GET /contacts/:contactId", params, NoPayload, NoPayload, "get",
             ServerContactPath(params), NoPayload, 200, TRUE)
  /\ UNCHANGED <<debug, calls, client, reg, toggled, tables>>

RouteContactsDelete(h, contactId) ==
  LET params == [NoParams EXCEPT !.contactId = contactId] IN
  /\ CanHandle(h)
  /\ Forward(h, "DELETE /contacts/:contactId", params, NoPayload, NoPayload, "delete",
             ServerContactPath(params) \o "/", NoPayload, 204, FALSE)
  /\ UNCHANGED <<debug, calls, client, reg, toggled, tables>>

RouteContactsCreate(h, payload) ==
  /\ CanHandle(h)
  /\ Forward(h, "POST /contacts", NoParams, NoPayload, payload, "post",
             "/contact", payload, 201, TRUE)
  /\ UNCHANGED <<debug, calls, client, reg, toggled, tables>>

RouteContactsUpdate(h, contactId, payload) ==
  LET params == [NoParams EXCEPT !.contactId = contactId] IN
  /\ CanHandle(h)
  /\ Forward(h, "PUT /contacts/:contactId", params, NoPayload, payload, "put",
             ServerContactPath(params), payload, 200, TRUE)
  /\ UNCHANGED <<debug, calls, client, reg, toggled, tables>>

RouteContactsGetTags(h, contactId) ==
  LET params == [NoParams EXCEPT !.contactId = contactId] IN
  /\ CanHandle(h)
  /\ Forward(h, "GET /contacts/:contactId/tags", params, NoPayload, NoPayload, "get",
             ServerContactPath(params) \o "/tags", NoPayload, 200, TRUE)
  /\ UNCHANGED <<debug, calls, client, reg, toggled, tables>>

RouteContactsAddTags(h, contactId, payload) ==
  LET params == [NoParams EXCEPT !.contactId = contactId] IN
  /\ CanHandle(h)
  /\ Forward(h, "PUT /contacts/:contactId/tags", params, NoPayload, payload, "put",
             ServerContactPath(params) \o "/tags", payload, 200, TRUE)
  /\ UNCHANGED <<debug, calls, client, reg, toggled, tables>>

RouteContactsRemoveTags(h, contactId, payload) ==
  LET params == [NoParams EXCEPT !.contactId = contactId] IN
  /\ CanHandle(h)
  /\ Forward(h, "DELETE /contacts/:contactId/tags", params, NoPayload, payload, "delete",
             ServerContactPath(params) \o "/tags", payload, 200, TRUE)
  /\ UNCHANGED <<debug, calls, client, reg, toggled, tables>>

RouteContactsListingViews(h, contactId) ==
  LET params == [NoParams EXCEPT !.contactId = contactId] IN
  /\ CanHandle(h)
  /\ Forward(h, "GET /contacts/:contactId/listingviews", params, NoPayload, NoPayload, "get",
             ServerContactPath(params) \o "/listingviews", NoPayload, 200, TRUE)
  /\ UNCHANGED <<debug, calls, client, reg, toggled, tables>>

RouteContactsMarketReport(h, contactId) ==
  LET params == [NoParams EXCEPT !.contactId = contactId] IN
  /\ CanHandle(h)
  /\ Forward(h, "GET /contacts/:contactId/marketreport", params, NoPayload, NoPayload, "get",
             ServerContactPath(params) \o "/marketreport", NoPayload, 200, TRUE)
  /\ UNCHANGED <<debug, calls, client, reg, toggled, tables>>

RouteContactsEmail(h, contactId, payload) ==
  LET params == [NoParams EXCEPT !.contactId = contactId] IN
  /\ CanHandle(h)
  /\ Forward(h, "PUT /contacts/:contactId/email", params, NoPayload, payload, "put",
             ServerContactPath(params) \o "/email", payload, 200, TRUE)
  /\ UNCHANGED <<debug, calls, client, reg, toggled, tables>>

RouteContactsText(h, contactId, payload) ==
  LET params == [NoParams EXCEPT !.contactId = contactId] IN
  /\ CanHandle(h)
  /\ Forward(h, "PUT /contacts/:contactId/text", params, NoPayload, payload, "put",
             ServerContactPath(params) \o "/text", payload, 200, TRUE)
  /\ UNCHANGED <<debug, calls, client, reg, toggled, tables>>

RouteContactsQuestion(h, contactId, payload) ==
  LET params == [NoParams EXCEPT !.contactId = contactId] IN
  /\ CanHandle(h)
  /\ Forward(h, "POST /contacts/:contactId/question", params, NoPayload, payload, "post",
             ServerContactPath(params) \o "/question", payload, 201, TRUE)
  /\ UNCHANGED <<debug, calls, client, reg, toggled, tables>>

RouteContactsAppointment(h, contactId, payload) ==
  LET params == [NoParams EXCEPT !.contactId = contactId] IN
  /\ CanHandle(h)
  /\ Forward(h, "POST /contacts/:contactId/appointment", params, NoPayload, payload, "post",
             ServerContactPath(params) \o "/appointment", payload, 201, TRUE)
  /\ UNCHANGED <<debug, calls, client, reg, toggled, tables>>

(***************************************************************************)
(* routes/notes.js (notes router), mounted at /contacts/:contactId/notes   *)
(***************************************************************************)
RouteNotesList(h, contactId) ==
  LET params == [NoParams EXCEPT !.contactId = contactId] IN
  /\ CanHandle(h)
  /\ Forward(h, "GET /contacts/:contactId/notes", params, NoPayload, NoPayload, "get",
             ServerContactPath(params) \o "/action/note", NoPayload, 200, TRUE)
  /\ UNCHANGED <<debug, calls, client, reg, toggled, tables>>

RouteNotesCreate(h, contactId, payload) ==
  LET params == [NoParams EXCEPT !.contactId = contactId] IN
  /\ CanHandle(h)
  /\ Forward(h, "PUT /contacts/:contactId/notes", params, NoPayload, payload, "put",
             ServerContactPath(params) \o "/action/note", payload, 201, TRUE)
  /\ UNCHANGED <<debug, calls, client, reg, toggled, tables>>

RouteNotesGet(h, contactId, actionId) ==
  LET params == [NoParams EXCEPT !.contactId = contactId, !.actionId = actionId] IN
  /\ CanHandle(h)
  /\ Forward(h, "GET /contacts/:contactId/notes/:actionId", params, NoPayload, NoPayload, "get",
             ServerContactPath(params) \o "/action/note/" \o actionId, NoPayload, 200, TRUE)
  /\ UNCHANGED <<debug, calls, client, reg, toggled, tables>>

RouteNotesUpdate(h, contactId, actionId, payload) ==
  LET params == [NoParams EXCEPT !.contactId = contactId, !.actionId = actionId] IN
  /\ CanHandle(h)
  /\ Forward(h, "PUT /contacts/:contactId/notes/:actionId", params, NoPayload, payload, "put",
             ServerContactPath(params) \o "/action/note/" \o actionId, payload, 200, TRUE)
  /\ UNCHANGED <<debug, calls, client, reg, toggled, tables>>

(***************************************************************************)
(* The server's upstream answers and the responses the handlers send.      *)
(***************************************************************************)
\* Faulty variant: the envelope is sent with the default status.
ErrorReply_DefaultStatus(err) ==
  [NoReply EXCEPT !.status = 200, !.kind = "json",
                  !.error = err.message, !.details = err.responseData]

\* catch (err): res.status(err.statusCode || 500).json({error: err.message,
\* details: err.responseData}); a details of undefined is left out of the
\* JSON.
ErrorReply(err) ==
  [NoReply EXCEPT !.status = JsOr(err.statusCode, Num(500)).n, !.kind = "json",
                  !.error = err.message, !.details = err.responseData]

\* The handler's catch block took the rejection of the upstream call.
Caught(h, answer, err) ==
  srv' = [srv EXCEPT !.requests[h] = [@ EXCEPT !.phase = "responded", !.upstream = answer,
                                                !.err = err, !.res = ErrorReply(err)]]

\* The upstream answered 2xx: res.json(data), res.status(201).json(data) or
\* res.status(204).send().
ServerFulfilled(h, status, data) ==
  /\ srv.requests[h].phase = "awaiting"
  /\ srv' = [srv EXCEPT
               !.requests[h] =
                 [@ EXCEPT !.phase = "responded",
                           !.upstream = [NoAnswer EXCEPT !.kind = "success",
                                           !.status = status, !.data = data],
                           !.res = [NoReply EXCEPT
                                      !.status = srv.requests[h].okStatus,
                                      !.kind = IF srv.requests[h].sendsData THEN "json" ELSE "empty",
                                      !.data = IF srv.requests[h].sendsData THEN data ELSE NoData]]]
  /\ UNCHANGED <<debug, calls, client, reg, toggled, tables>>

\* The upstream answered outside 2xx.
ServerRejected(h, status, data) ==
  /\ srv.requests[h].phase = "awaiting"
  /\ Caught(h, [NoAnswer EXCEPT !.kind = "status", !.status = status, !.data = data],
            responseErrorInterceptor(HttpStatusError(status, data)))
  /\ UNCHANGED <<debug, calls, client, reg, toggled, tables>>

\* The upstream did not answer.
ServerNoResponse(h, message) ==
  /\ srv.requests[h].phase = "awaiting"
  /\ Caught(h, [NoAnswer EXCEPT !.kind = "noresponse", !.message = message],
            responseErrorInterceptor(NoResponseError(message)))
  /\ UNCHANGED <<debug, calls, client, reg, toggled, tables>>

\* The upstream request could not be set up.
ServerSetupFailed(h, message) ==
  /\ srv.requests[h].phase = "awaiting"
  /\ Caught(h, [NoAnswer EXCEPT !.kind = "setup", !.message = message],
            responseErrorInterceptor(SetupError(message)))
  /\ UNCHANGED <<debug, calls, client, reg, toggled, tables>>

\* The response of h is out: the request is over.
ServerDone(h) ==
  /\ srv.requests[h].phase = "responded"
  /\ srv' = [srv EXCEPT !.requests[h] = IdleHandler]
  /\ UNCHANGED <<debug, calls, client, reg, toggled, tables>>

(***************************************************************************)
(* The server adapter next to the library: HTTP requests come in to the    *)
(* routes while a program calls the mediators of a client.                 *)
(***************************************************************************)
SrvContactIds == {"42"}

SrvActionIds == {"7"}

SrvAlertSegments == {"1", "2", "3", "1abc", "abc", "\t2", "0x1"}

SrvCallPayloads ==
  {[k |-> "object", date |-> Str("2024-05-01"), result |-> r, direction |-> d] :
     <<r, d>> \in {<<Num(1), Str("outbound")>>, <<Num(0), Undefined>>,
                   <<Num(9), Undefined>>, <<Undefined, Str("sideways")>>}}

SrvAlertPayloads ==
  {[k |-> "object", number |-> n, active |-> Num(1)] :
     n \in {Num(1), Num(3), Undefined, Str("1")}}

SrvScheduleCallPayloads ==
  {[k |-> "object", leadId |-> l, note |-> Str("call back")] :
     l \in {Undefined, Num(0), Num(42)}}

SrvViewPayloads ==
  {[k |-> "object", lead_id |-> l, mls_id |-> m, save |-> Bool(TRUE)] :
     <<l, m>> \in {<<Num(42), Str("M-1")>>, <<Undefined, Str("M-1")>>,
                   <<Num(42), Undefined>>, <<Num(42), Str("")>>}}

SrvQueries == {EmptyObject, [k |-> "object", limit |-> Str("10"), email |-> Str("a@b.c")]}

SrvErrorStatuses == {404}

SrvErrorBodies ==
  {DataNull, DataString(""), DataObject(Undefined, Str("Not found"), Undefined)}

SrvEnvs ==
  {NoEnv,
   [NoEnv EXCEPT !.KVCORE_BASE_URL = Str("https://api.kvcore.com/v2/public")],
   [NoEnv EXCEPT !.KVCORE_BASE_URL = Str("https://api.kvcore.com/v2/public"),
                 !.KVCORE_BEARER_TOKEN = Str("env-token"),
                 !.NODE_ENV = Str("production")],
   [NoEnv EXCEPT !.KVCORE_BASE_URL = Str("https://api.kvcore.com/v2/public"),
                 !.KVCORE_BEARER_TOKEN = Str("env-token"),
                 !.RATE_LIMIT_MAX_REQUESTS = Str("2"),
                 !.NODE_ENV = Str("development")],
   [NoEnv EXCEPT !.KVCORE_BASE_URL = Str("https://api.kvcore.com/v2/public"),
                 !.KVCORE_BEARER_TOKEN = Str("env-token"),
                 !.RATE_LIMIT_MAX_REQUESTS = Str("0x10"),
                 !.NODE_ENV = Str("production")]}

\* The environments of the server taken with its requests in hand together:
\* one it cannot start in, and one with a limit the requests reach.
SrvConcEnvs ==
  {NoEnv,
   [NoEnv EXCEPT !.KVCORE_BASE_URL = Str("https://api.kvcore.com/v2/public"),
                 !.KVCORE_BEARER_TOKEN = Str("env-token"),
                 !.RATE_LIMIT_MAX_REQUESTS = Str("2"),
                 !.NODE_ENV = Str("development")]}

SrvTimestamps == {"2024-05-01T00:00:00.000Z"}

SrvUnmatched == {<<"GET", "/nope">>, <<"DELETE", "/views">>}

\* The errors passed on to the error handler, each with whether the limiter
\* has counted its request: what express.json() passes on for a body it
\* cannot parse or that is too large, and what a router passes on for a
\* path parameter it cannot decode (GET /contacts/%E0%A4%A).
SrvPassedErrors ==
  {<<[NewError("SyntaxError", Str("Unexpected token } in JSON at position 1"))
        EXCEPT !.statusCode = Num(400)], FALSE>>,
   <<[NewError("PayloadTooLargeError", Str("request entity too large"))
        EXCEPT !.statusCode = Num(413)], FALSE>>,
   <<[NewError("URIError", Str("Failed to decode param '%E0%A4%A'"))
        EXCEPT !.statusCode = Num(400)], TRUE>>}

LibContactIds == {Num(42)}

LibActionIds == {Num(7)}

LibAlertNumbers == {Num(1), Num(3), Str("1abc")}

NextServer ==
  \/ \E env \in SrvEnvs : ServerStart(env)
  \/ WindowElapsed
  \/ \E h \in SeqRequests, t \in SrvTimestamps : RouteHealth(h, t)
  \/ \E h \in SeqRequests : RouteRoot(h)
  \/ \E h \in SeqRequests, r \in SrvUnmatched, t \in SrvTimestamps : RouteNotFound(h, r[1], r[2], t)
  \/ \E h \in SeqRequests, e \in SrvPassedErrors : ErrorHandler(h, e[1], e[2])
  \/ \E h \in SeqRequests, c \in SrvContactIds : RouteCallsList(h, c)
  \/ \E h \in SeqRequests, c \in SrvContactIds, p \in SrvCallPayloads : RouteCallsCreate(h, c, p)
  \/ \E h \in SeqRequests, c \in SrvContactIds, a \in SrvActionIds : RouteCallsGet(h, c, a)
  \/ \E h \in SeqRequests, c \in SrvContactIds, a \in SrvActionIds, p \in SrvCallPayloads :
       RouteCallsUpdate(h, c, a, p)
  \/ \E h \in SeqRequests, c \in SrvContactIds : RouteAlertsList(h, c)
  \/ \E h \in SeqRequests, c \in SrvContactIds, p \in SrvAlertPayloads : RouteAlertsCreate(h, c, p)
  \/ \E h \in SeqRequests, c \in SrvContactIds, n \in SrvAlertSegments, p \in {[k |-> "object", number |-> Num(1), active |-> Num(1)]} :
       RouteAlertsUpdate(h, c, n, p)
  \/ \E h \in SeqRequests, c \in SrvContactIds, n \in SrvAlertSegments : RouteAlertsDelete(h, c, n)
  \/ \E h \in SeqRequests, c \in SrvContactIds, n \in SrvAlertSegments : RouteAlertsSend(h, c, n)
  \/ \E h \in SeqRequests, c \in SrvContactIds, n \in SrvAlertSegments : RouteAlertsGetRecent(h, c, n)
  \/ \E h \in SeqRequests, p \in SrvScheduleCallPayloads : RouteScheduleCall(h, p)
  \/ \E h \in SeqRequests, p \in SrvViewPayloads : RouteViews(h, p)
  \/ \E h \in SeqRequests, q \in SrvQueries : RouteContactsList(h, q)
  \/ \E h \in SeqRequests, c \in SrvContactIds : RouteContactsGet(h, c)
  \/ \E h \in SeqRequests, c \in SrvContactIds : RouteContactsDelete(h, c)
  \/ \E h \in SeqRequests, p \in ContactDataInputs : RouteContactsCreate(h, p)
  \/ \E h \in SeqRequests, c \in SrvContactIds, p \in ContactDataInputs : RouteContactsUpdate(h, c, p)
  \/ \E h \in SeqRequests, c \in SrvContactIds : RouteContactsGetTags(h, c)
  \/ \E h \in SeqRequests, c \in SrvContactIds, t \in TagsInputs : RouteContactsAddTags(h, c, t)
  \/ \E h \in SeqRequests, c \in SrvContactIds, t \in TagsInputs : RouteContactsRemoveTags(h, c, t)
  \/ \E h \in SeqRequests, c \in SrvContactIds : RouteContactsListingViews(h, c)
  \/ \E h \in SeqRequests, c \in SrvContactIds : RouteContactsMarketReport(h, c)
  \/ \E h \in SeqRequests, c \in SrvContactIds, p \in EmailDataInputs : RouteContactsEmail(h, c, p)
  \/ \E h \in SeqRequests, c \in SrvContactIds, p \in TextDataInputs : RouteContactsText(h, c, p)
  \/ \E h \in SeqRequests, c \in SrvContactIds, p \in QuestionDataInputs : RouteContactsQuestion(h, c, p)
  \/ \E h \in SeqRequests, c \in SrvContactIds, p \in QuestionDataInputs : RouteContactsAppointment(h, c, p)
  \/ \E h \in SeqRequests, c \in SrvContactIds : RouteNotesList(h, c)
  \/ \E h \in SeqRequests, c \in SrvContactIds, p \in NoteDataInputs : RouteNotesCreate(h, c, p)
  \/ \E h \in SeqRequests, c \in SrvContactIds, a \in SrvActionIds : RouteNotesGet(h, c, a)
  \/ \E h \in SeqRequests, c \in SrvContactIds, a \in SrvActionIds, p \in NoteDataInputs : RouteNotesUpdate(h, c, a, p)
  \/ \E h \in SeqRequests, st \in SuccessStatuses, b \in ConcSuccessBodies : ServerFulfilled(h, st, b)
  \/ \E h \in SeqRequests, st \in SrvErrorStatuses, b \in SrvErrorBodies : ServerRejected(h, st, b)
  \/ \E h \in SeqRequests, m \in ConcNoResponseMessages : ServerNoResponse(h, m)
  \/ \E h \in SeqRequests, m \in SetupMessages : ServerSetupFailed(h, m)
  \/ \E h \in SeqRequests : ServerDone(h)
  \/ \E c \in ConcConfigs : Construct(c)
  \/ \E i \in SeqSlots, c \in LibContactIds, p \in SrvCallPayloads : CallsCreate(i, c, p)
  \/ \E i \in SeqSlots, c \in LibContactIds, a \in LibActionIds, p \in SrvCallPayloads :
       CallsUpdate(i, c, a, p)
  \/ \E i \in SeqSlots, c \in LibContactIds, p \in SrvAlertPayloads : SearchAlertsCreate(i, c, p)
  \/ \E i \in SeqSlots, c \in LibContactIds, n \in LibAlertNumbers,
        p \in {[k |-> "object", number |-> Num(1), active |-> Num(1)]} :
       SearchAlertsUpdate(i, c, n, p)
  \/ \E i \in SeqSlots, c \in LibContactIds, n \in LibAlertNumbers : SearchAlertsDelete(i, c, n)
  \/ \E i \in SeqSlots, c \in LibContactIds, n \in LibAlertNumbers : SearchAlertsSend(i, c, n)
  \/ \E i \in SeqSlots, c \in LibContactIds, n \in LibAlertNumbers : SearchAlertsGetRecent(i, c, n)
  \/ \E i \in SeqSlots, p \in SrvScheduleCallPayloads : MiscScheduleCall(i, p)
  \/ \E i \in SeqSlots, p \in SrvViewPayloads : MiscAddListingView(i, p)
  \/ \E i \in SeqSlots : RequestInterceptor(i)
  \/ \E i \in SeqSlots, st \in SuccessStatuses, b \in ConcSuccessBodies : ResponseFulfilled(i, st, b)
  \/ \E i \in SeqSlots, st \in SrvErrorStatuses, b \in SrvErrorBodies : ResponseRejected(i, st, b)
  \/ \E i \in SeqSlots, m \in ConcNoResponseMessages : NoResponseReceived(i, m)
  \/ \E i \in SeqSlots, m \in SetupMessages : RequestSetupFailed(i, m)
  \/ \E i \in SeqSlots : Release(i)

SpecServer == Init /\ [][NextServer]_vars

\* The server alone, with the requests of its clients in hand together: a
\* request arrives while another awaits its upstream answer, and both are
\* counted by the one limiter.
NextServerConc ==
  \/ \E env \in SrvConcEnvs : ServerStart(env)
  \/ WindowElapsed
  \/ \E h \in Requests, t \in SrvTimestamps : RouteHealth(h, t)
  \/ \E h \in Requests : RouteRoot(h)
  \/ \E h \in Requests, r \in SrvUnmatched, t \in SrvTimestamps : RouteNotFound(h, r[1], r[2], t)
  \/ \E h \in Requests, e \in SrvPassedErrors : ErrorHandler(h, e[1], e[2])
  \/ \E h \in Requests, c \in SrvContactIds : RouteCallsList(h, c)
  \/ \E h \in Requests, c \in SrvContactIds, p \in SrvCallPayloads : RouteCallsCreate(h, c, p)
  \/ \E h \in Requests, c \in SrvContactIds, a \in SrvActionIds : RouteCallsGet(h, c, a)
  \/ \E h \in Requests, c \in SrvContactIds, a \in SrvActionIds, p \in SrvCallPayloads :
       RouteCallsUpdate(h, c, a, p)
  \/ \E h \in Requests, c \in SrvContactIds : RouteAlertsList(h, c)
  \/ \E h \in Requests, c \in SrvContactIds, p \in SrvAlertPayloads : RouteAlertsCreate(h, c, p)
  \/ \E h \in Requests, c \in SrvContactIds, n \in SrvAlertSegments, p \in {[k |-> "object", number |-> Num(1), active |-> Num(1)]} :
       RouteAlertsUpdate(h, c, n, p)
  \/ \E h \in Requests, c \in SrvContactIds, n \in SrvAlertSegments : RouteAlertsDelete(h, c, n)
  \/ \E h \in Requests, c \in SrvContactIds, n \in SrvAlertSegments : RouteAlertsSend(h, c, n)
  \/ \E h \in Requests, c \in SrvContactIds, n \in SrvAlertSegments : RouteAlertsGetRecent(h, c, n)
  \/ \E h \in Requests, p \in SrvScheduleCallPayloads : RouteScheduleCall(h, p)
  \/ \E h \in Requests, p \in SrvViewPayloads : RouteViews(h, p)
  \/ \E h \in Requests, q \in SrvQueries : RouteContactsList(h, q)
  \/ \E h \in Requests, c \in SrvContactIds : RouteContactsGet(h, c)
  \/ \E h \in Requests, c \in SrvContactIds : RouteContactsDelete(h, c)
  \/ \E h \in Requests, p \in ContactDataInputs : RouteContactsCreate(h, p)
  \/ \E h \in Requests, c \in SrvContactIds, p \in ContactDataInputs : RouteContactsUpdate(h, c, p)
  \/ \E h \in Requests, c \in SrvContactIds : RouteContactsGetTags(h, c)
  \/ \E h \in Requests, c \in SrvContactIds, t \in TagsInputs : RouteContactsAddTags(h, c, t)
  \/ \E h \in Requests, c \in SrvContactIds, t \in TagsInputs : RouteContactsRemoveTags(h, c, t)
  \/ \E h \in Requests, c \in SrvContactIds : RouteContactsListingViews(h, c)
  \/ \E h \in Requests, c \in SrvContactIds : RouteContactsMarketReport(h, c)
  \/ \E h \in Requests, c \in SrvContactIds, p \in EmailDataInputs : RouteContactsEmail(h, c, p)
  \/ \E h \in Requests, c \in SrvContactIds, p \in TextDataInputs : RouteContactsText(h, c, p)
  \/ \E h \in Requests, c \in SrvContactIds, p \in QuestionDataInputs : RouteContactsQuestion(h, c, p)
  \/ \E h \in Requests, c \in SrvContactIds, p \in QuestionDataInputs : RouteContactsAppointment(h, c, p)
  \/ \E h \in Requests, c \in SrvContactIds : RouteNotesList(h, c)
  \/ \E h \in Requests, c \in SrvContactIds, p \in NoteDataInputs : RouteNotesCreate(h, c, p)
  \/ \E h \in Requests, c \in SrvContactIds, a \in SrvActionIds : RouteNotesGet(h, c, a)
  \/ \E h \in Requests, c \in SrvContactIds, a \in SrvActionIds, p \in NoteDataInputs : RouteNotesUpdate(h, c, a, p)
  \/ \E h \in Requests, st \in SuccessStatuses, b \in ConcSuccessBodies : ServerFulfilled(h, st, b)
  \/ \E h \in Requests, st \in SrvErrorStatuses, b \in SrvErrorBodies : ServerRejected(h, st, b)
  \/ \E h \in Requests, m \in ConcNoResponseMessages : ServerNoResponse(h, m)
  \/ \E h \in Requests, m \in SetupMessages : ServerSetupFailed(h, m)
  \/ \E h \in Requests : ServerDone(h)

SpecServerConc == Init /\ [][NextServerConc]_vars

(***************************************************************************)
(* Properties.                                                             *)
(***************************************************************************)
Started(i) == calls[i].phase # "idle"

\* The promise rejected before the transport was invoked, with this message.
RejectedUnsent(i, message) ==
  /\ calls[i].phase = "rejected"
  /\ calls[i].invoked = 0
  /\ calls[i].req = NoRequest
  /\ calls[i].upstream = NoAnswer
  /\ calls[i].err.name = "Error"
  /\ calls[i].err.message = Str(message)

\* The transport was invoked exactly once, with this request.
InvokedOnceWith(i, method, url, data) ==
  /\ calls[i].invoked = 1
  /\ calls[i].req.method = method
  /\ calls[i].req.url = url
  /\ calls[i].req.data = data
  /\ calls[i].req.params = NoPayload

\* The text of the contact ids the caller uses, as it must appear in a path.
IdText(id) == CASE id = Num(42) -> "42" [] id = Str("abc") -> "abc"

InvalidResultMessage ==
  "Invalid call result code. Must be 1 (Bad Number), 2 (Not Home), or 3 (Contacted)"

\* The codes 1, 2, 3, as numbers or as the strings that spell them.
ResultCodes == {Num(1), Num(2), Num(3), Str("1"), Str("2"), Str("3")}

\* C1 (as stated): whenever calls.create or calls.update is given a result
\* value that is not one of the codes 1, 2, 3, the call rejects with the
\* validation error naming 1, 2, 3 and the transport is never invoked.
\* (A payload without a result field is not a case of the claim.)
C1_InvalidResultRejected ==
  \A i \in Slots :
    (/\ calls[i].op \in {"calls.create", "calls.update"}
     /\ Started(i)
     /\ calls[i].args.payload.result # Undefined
     /\ calls[i].args.payload.result \notin ResultCodes)
    => RejectedUnsent(i, InvalidResultMessage)

\* C2: searchAlerts.update, delete, send and getRecent with an alert number
\* other than 1 or 2 reject with the validation error and never invoke the
\* transport.
C2_InvalidAlertNumberRejected ==
  \A i \in Slots :
    (/\ calls[i].op \in {"searchAlerts.update", "searchAlerts.delete",
                         "searchAlerts.send", "searchAlerts.getRecent"}
     /\ Started(i)
     /\ calls[i].args.id2 \notin {Num(1), Num(2)})
    => RejectedUnsent(i, InvalidAlertNumber)

\* C2 witness: searchAlerts.delete was called with the string '1' for the
\* alert number and has rejected.
C2_Witness ==
  \E i \in Slots :
    /\ calls[i].op = "searchAlerts.delete"
    /\ calls[i].args.id2 = Str("1")
    /\ calls[i].phase = "rejected"

\* C3: searchAlerts.create posts to /contact/{contactId}/searchalert with the
\* payload only when payload.number is 1 or 2; with number missing or any
\* other value it rejects with the validation error, transport not invoked.
C3_CreateAlertOnlyForOneOrTwo ==
  \A i \in Slots :
    (calls[i].op = "searchAlerts.create" /\ Started(i))
    => IF calls[i].args.payload.number \in {Num(1), Num(2)}
         THEN InvokedOnceWith(i, "post",
                              "/contact/" \o IdText(calls[i].args.id) \o "/searchalert",
                              calls[i].args.payload)
         ELSE RejectedUnsent(i, InvalidAlertNumber)

\* C3 witness: a create with number 2 whose POST is on the wire.
C3_Witness ==
  \E i \in Slots :
    /\ calls[i].op = "searchAlerts.create"
    /\ calls[i].args.payload.number = Num(2)
    /\ calls[i].phase = "sent"

InvalidDirectionMessage == "Invalid call direction. Must be \"outbound\" or \"inbound\""

\* C4 (as stated): whenever calls.create or calls.update is given a payload
\* whose direction is present and not 'outbound' or 'inbound', the call
\* rejects with a validation error and the transport is never invoked;
\* with direction absent a call is never rejected on account of direction.
\* (Stated for calls whose result is absent or a valid code, so that the
\* result check does not decide the outcome.)
C4_InvalidDirectionRejected ==
  \A i \in Slots :
    (/\ calls[i].op \in {"calls.create", "calls.update"}
     /\ Started(i)
     /\ calls[i].args.payload.result \in {Undefined, Num(1), Num(2), Num(3)})
    => /\ (/\ calls[i].args.payload.direction # Undefined
           /\ calls[i].args.payload.direction \notin {Str("outbound"), Str("inbound")})
          => RejectedUnsent(i, InvalidDirectionMessage)
       /\ calls[i].args.payload.direction = Undefined
          => calls[i].err.message # Str(InvalidDirectionMessage)

\* Values the required-field checks of misc treat as missing.
AbsentOrEmpty == {Undefined, Null, Str("")}
FalsyValues == {Undefined, Null, Str(""), Num(0), Bool(FALSE)}

\* C5 (as stated): scheduleCall rejects and sends nothing when leadId is
\* missing, addListingView when lead_id or mls_id is missing; with the
\* required fields supplied each issues exactly one POST with the payload.
C5_RequiredFieldsAsStated ==
  \A i \in Slots :
    /\ (calls[i].op = "misc.scheduleCall" /\ Started(i))
       => IF calls[i].args.payload.leadId \in AbsentOrEmpty
            THEN RejectedUnsent(i, "leadId is required")
            ELSE InvokedOnceWith(i, "post", "/schedule-call", calls[i].args.payload)
    /\ (calls[i].op = "misc.addListingView" /\ Started(i))
       => IF calls[i].args.payload.lead_id \in AbsentOrEmpty
            THEN RejectedUnsent(i, "lead_id is required")
            ELSE IF calls[i].args.payload.mls_id \in AbsentOrEmpty
              THEN RejectedUnsent(i, "mls_id is required")
              ELSE InvokedOnceWith(i, "post", "/views", calls[i].args.payload)

\* C5 (amended): a required field counts as supplied only when its value is
\* truthy; a missing, null, empty or zero leadId / lead_id / mls_id is
\* rejected and nothing is sent; otherwise exactly one POST carries the payload.
C5_RequiredFieldsTruthy ==
  \A i \in Slots :
    /\ (calls[i].op = "misc.scheduleCall" /\ Started(i))
       => IF calls[i].args.payload.leadId \in FalsyValues
            THEN RejectedUnsent(i, "leadId is required")
            ELSE InvokedOnceWith(i, "post", "/schedule-call", calls[i].args.payload)
    /\ (calls[i].op = "misc.addListingView" /\ Started(i))
       => IF calls[i].args.payload.lead_id \in FalsyValues
            THEN RejectedUnsent(i, "lead_id is required")
            ELSE IF calls[i].args.payload.mls_id \in FalsyValues
              THEN RejectedUnsent(i, "mls_id is required")
              ELSE InvokedOnceWith(i, "post", "/views", calls[i].args.payload)

\* C5 witness: addListingView with both fields given has its POST on the wire.
C5_Witness ==
  \E i \in Slots :
    /\ calls[i].op = "misc.addListingView"
    /\ calls[i].args.payload.lead_id = Num(42)
    /\ calls[i].args.payload.mls_id = Str("M-1")
    /\ calls[i].phase = "sent"

\* The message of the HTTP library's own error for a non-2xx answer.
GenericStatusMessage(status) ==
  CASE status = 404 -> Str("Request failed with status code 404")
    [] status = 500 -> Str("Request failed with status code 500")

\* body.message if present, else body.error if present, else the generic
\* message (a field counts as present when it holds a non-empty value).
ClaimedMessage(status, body) ==
  IF body.message \notin AbsentOrEmpty THEN body.message
  ELSE IF body.error \notin AbsentOrEmpty THEN body.error
  ELSE GenericStatusMessage(status)

\* C6 (as stated): when the upstream answers an operation with a non-2xx
\* status S and body B, the operation rejects with statusCode S,
\* responseData B and message B.message, else B.error, else the generic one.
C6_UpstreamErrorNormalized ==
  \A i \in Slots :
    calls[i].upstream.kind = "status"
    => /\ calls[i].phase = "rejected"
       /\ calls[i].err.statusCode = Num(calls[i].upstream.status)
       /\ calls[i].err.responseData = calls[i].upstream.data
       /\ calls[i].err.message =
            ClaimedMessage(calls[i].upstream.status, calls[i].upstream.data)

\* C7: when the request was sent and no response came, the operation
\* rejects with statusCode 503, the fixed message and no response body.
C7_NoResponseIs503 ==
  \A i \in Slots :
    calls[i].upstream.kind = "noresponse"
    => /\ calls[i].phase = "rejected"
       /\ calls[i].err.statusCode = Num(503)
       /\ calls[i].err.message = Str("No response received from KVCore API")
       /\ calls[i].err.responseData = NoData

\* C7 witness: a contacts.get whose request timed out has rejected.
C7_Witness ==
  \E i \in Slots :
    /\ calls[i].op = "contacts.get"
    /\ calls[i].upstream.kind = "noresponse"
    /\ calls[i].upstream.message = "timeout of 30000ms exceeded"
    /\ calls[i].phase = "rejected"

\* C8: when the request could not be set up (no response, no request), the
\* operation rejects with statusCode 500, the underlying message unchanged
\* and no response body.
C8_NeverSentIs500 ==
  \A i \in Slots :
    calls[i].upstream.kind = "setup"
    => /\ calls[i].phase = "rejected"
       /\ calls[i].err.statusCode = Num(500)
       /\ calls[i].err.message = Str(calls[i].upstream.message)
       /\ calls[i].err.responseData = NoData

\* C8 witness: a notes.create whose request could not be set up has rejected.
C8_Witness ==
  \E i \in Slots :
    /\ calls[i].op = "notes.create"
    /\ calls[i].upstream.kind = "setup"
    /\ calls[i].upstream.message = "Invalid URL"
    /\ calls[i].phase = "rejected"

\* C9 (as stated): every failed transport call, an error response with an
\* empty or null body included, rejects with an integer statusCode: the
\* upstream status, 503 or 500, according to the one case that applies.
C9_EveryFailureHasItsStatusCode ==
  \A i \in Slots :
    calls[i].upstream.kind \in {"status", "noresponse", "setup"}
    => /\ calls[i].phase = "rejected"
       /\ calls[i].err.statusCode =
            CASE calls[i].upstream.kind = "status" -> Num(calls[i].upstream.status)
              [] calls[i].upstream.kind = "noresponse" -> Num(503)
              [] calls[i].upstream.kind = "setup" -> Num(500)

\* C10 (as stated): every error an operation rejects with has the shape
\* {message, integer statusCode, optional response body}.
C10_EveryRejectionIsNormalized ==
  \A i \in Slots :
    calls[i].phase = "rejected"
    => /\ calls[i].err.message.k = "string"
       /\ calls[i].err.statusCode.k = "number"

\* The bearerToken the constructor was given (undefined when config or the
\* field was omitted).
GivenToken ==
  IF client.given = NoPayload THEN Undefined ELSE client.given.bearerToken

\* C11: constructing the client with a missing or empty bearerToken throws
\* 'bearerToken is required' with no transport and no mediator created and no
\* request possible; with a non-empty token it succeeds, holds a transport
\* and exposes the five mediators contacts, notes, calls, searchAlerts, misc.
C11_ConstructorRequiresToken ==
  client.state # "none"
  => /\ GivenToken \in {Undefined, Str("")}
        => /\ client.state = "failed"
           /\ client.error.name = "Error"
           /\ client.error.message = Str("bearerToken is required")
           /\ client.http = NoHttp
           /\ client.mediators = {}
           /\ \A i \in Slots : calls[i] = IdleCall
     /\ (GivenToken.k = "string" /\ GivenToken.s # "")
        => /\ client.state = "ready"
           /\ client.error = NoError
           /\ client.http # NoHttp
           /\ client.mediators = {"contacts", "notes", "calls", "searchAlerts", "misc"}

\* C11 witness: a constructor given {bearerToken: ''} has thrown.
C11_Witness ==
  /\ client.state = "failed"
  /\ client.given # NoPayload
  /\ GivenToken = Str("")

\* C12: every request a client has issued, whatever operations and debug
\* toggles came before, carries Authorization 'Bearer ' followed by the token
\* given at construction, Accept application/json and Content-Type
\* application/json.
C12_EveryRequestAuthorized ==
  \A i \in Slots :
    calls[i].invoked > 0
    => /\ calls[i].req.headers.Authorization = "Bearer " \o GivenToken.s
       /\ calls[i].req.headers.Accept = "application/json"
       /\ calls[i].req.headers.ContentType = "application/json"

\* C12 witness: with debug switched on after construction with token tok-B, a
\* contacts.sendEmail request is on the wire.
C12_Witness ==
  \E i \in Slots :
    /\ GivenToken = Str("tok-B")
    /\ debug = TRUE
    /\ calls[i].op = "contacts.sendEmail"
    /\ calls[i].phase = "sent"
    /\ calls[i].req.headers.Authorization = "Bearer tok-B"

\* C13 (as stated): on upstream success every operation of every mediator,
\* the delete operations included, resolves with exactly the upstream
\* response body.
C13_EveryOperationReturnsBody ==
  \A i \in Slots :
    calls[i].upstream.kind = "success"
    => /\ calls[i].phase = "resolved"
       /\ calls[i].value = calls[i].upstream.data

\* The operations declared Promise<void>: they await the request and return
\* nothing.
VoidOperations == {"contacts.delete", "searchAlerts.delete"}

\* C13 (amended): on upstream success contacts.delete and searchAlerts.delete
\* resolve with undefined, and every other operation of every mediator
\* resolves with exactly the upstream response body.
C13_ReturnsBodyExceptDelete ==
  \A i \in Slots :
    calls[i].upstream.kind = "success"
    => /\ calls[i].phase = "resolved"
       /\ calls[i].err = NoError
       /\ calls[i].value = IF calls[i].op \in VoidOperations
                             THEN NoData
                             ELSE calls[i].upstream.data

\* C13 witness: contacts.delete resolved with undefined although the upstream
\* answered 200 with a body.
C13_Witness ==
  \E i \in Slots :
    /\ calls[i].op = "contacts.delete"
    /\ calls[i].phase = "resolved"
    /\ calls[i].upstream.status = 200
    /\ calls[i].upstream.data = DataObject(Num(1), Undefined, Undefined)
    /\ calls[i].value = NoData

\* C14: contacts.sendEmail(id, payload) invokes the transport exactly once,
\* with a PUT to '/contact/' + id + '/email' (the id verbatim) whose body is
\* the payload, and when the upstream answers 2xx it resolves with the
\* upstream body unmodified.
C14_SendEmailIsOnePut ==
  \A i \in Slots :
    calls[i].op = "contacts.sendEmail"
    => /\ calls[i].invoked = 1
       /\ calls[i].req.method = "put"
       /\ calls[i].req.url = "/contact/" \o IdText(calls[i].args.id) \o "/email"
       /\ calls[i].req.data = calls[i].args.payload
       /\ calls[i].req.params = NoPayload
       /\ calls[i].upstream.kind = "success"
          => /\ calls[i].phase = "resolved"
             /\ calls[i].value = calls[i].upstream.data

\* C14 witness: sendEmail(42, {subject: 'Hi', message: 'Body'}) has resolved
\* with the upstream body after one PUT to /contact/42/email.
C14_Witness ==
  \E i \in Slots :
    /\ calls[i].op = "contacts.sendEmail"
    /\ calls[i].args.id = Num(42)
    /\ calls[i].args.payload = [k |-> "object", subject |-> Str("Hi"), message |-> Str("Body")]
    /\ calls[i].req.url = "/contact/42/email"
    /\ calls[i].invoked = 1
    /\ calls[i].phase = "resolved"
    /\ calls[i].value = DataObject(Num(1), Undefined, Undefined)

\* What one step may do to a call: a settled call stays as it is until the
\* caller lets it go, and a call in flight keeps its one request.
OneRequestStep(i) ==
  /\ calls[i].phase \in {"resolved", "rejected"}
     => calls'[i] \in {calls[i], IdleCall}
  /\ calls[i].phase \in {"queued", "sent"}
     => /\ calls'[i].op = calls[i].op
        /\ calls'[i].req = calls[i].req
        /\ calls'[i].invoked = 1
        /\ calls'[i].phase \in {"queued", "sent", "resolved", "rejected"}

\* C15: every mediator call invokes the transport at most once: not at all
\* when validation rejects it, exactly once otherwise; a call in flight
\* keeps that one request until it settles, also on a timeout or an error,
\* and once settled its outcome is delivered once and never changes again.
C15_AtMostOneRequest ==
  /\ [](\A i \in Slots :
          /\ calls[i].invoked \in {0, 1}
          /\ Started(i)
             => IF calls[i].phase = "rejected" /\ calls[i].upstream.kind = "none"
                  THEN calls[i].invoked = 0 /\ calls[i].req = NoRequest
                  ELSE calls[i].invoked = 1 /\ calls[i].req # NoRequest)
  /\ [][\A i \in Slots : OneRequestStep(i)]_vars

\* C15 witness: a calls.create whose one request timed out has rejected.
C15_Witness ==
  \E i \in Slots :
    /\ calls[i].op = "calls.create"
    /\ calls[i].upstream.kind = "noresponse"
    /\ calls[i].upstream.message = "timeout of 30000ms exceeded"
    /\ calls[i].invoked = 1
    /\ calls[i].phase = "rejected"

\* C16: on a constructed client the debug flag is false until enableDebug is
\* first called; after enableDebug it is true, also when enableDebug was
\* called twice in a row, and after disableDebug it is false, also when
\* disableDebug was called twice in a row.
C16_DebugSwitchesIdempotent ==
  client.state = "ready"
  => /\ toggled.op = "none" => debug = FALSE
     /\ toggled.op = "enableDebug" => debug = TRUE
     /\ toggled.op = "disableDebug" => debug = FALSE

\* C16 witness: enableDebug was called twice in a row and the flag is true.
C16_Witness ==
  /\ toggled = [op |-> "enableDebug", repeated |-> TRUE]
  /\ debug = TRUE

\* C17: a step of enableDebug or disableDebug changes nothing but the debug
\* flag: the client's configuration (base URL, token, timeout), its transport
\* and its five mediators stay as they are, and no call is started, sent or
\* settled by it.
C17_SwitchesTouchOnlyTheFlag ==
  [][(toggled' # toggled \/ debug' # debug)
       => /\ client' = client
          /\ calls' = calls
          /\ reg' = reg]_vars

\* C17 witness: disableDebug was called on a client with its own base URL and
\* timeout while a request logged under debug was on the wire.
C17_Witness ==
  \E i \in Slots :
    /\ toggled.op = "disableDebug"
    /\ debug = FALSE
    /\ client.http.baseURL = "https://crm.test/v2"
    /\ client.http.timeout = 5000
    /\ client.mediators = Mediators
    /\ calls[i].phase = "sent"
    /\ calls[i].reqLogged = TRUE

\* C18 (as stated): the flag is read once per call, when its request goes
\* out: a response or an error response is logged exactly when the request of
\* its call was logged, whatever switches were called while it was in flight.
C18_LoggingFixedAtCallStart ==
  \A i \in Slots :
    calls[i].upstream.kind \in {"success", "status"}
    => calls[i].resLogged = calls[i].reqLogged

\* C18 (amended): the flag is read each time an interceptor runs: a request
\* is logged according to the flag's value when it goes out, and a response
\* or an error response according to the flag's value when it is received,
\* so a switch called while the call is in flight decides it; an error
\* without a response is not logged by the flag.
C18_LoggingFollowsCurrentFlag ==
  [][\A i \in Slots :
       /\ (calls[i].phase = "queued" /\ calls'[i].phase = "sent")
          => calls'[i].reqLogged = debug
       /\ (calls[i].phase = "sent" /\ calls'[i].phase \in {"resolved", "rejected"})
          => /\ calls'[i].reqLogged = calls[i].reqLogged
             /\ calls'[i].resLogged =
                  IF calls'[i].upstream.kind \in {"success", "status"}
                    THEN debug
                    ELSE FALSE]_vars

\* C18 witness: enableDebug was called while a request sent unlogged was in
\* flight, and its error response was logged.
C18_Witness ==
  \E i \in Slots :
    /\ toggled.op = "enableDebug"
    /\ calls[i].phase = "rejected"
    /\ calls[i].upstream.kind = "status"
    /\ calls[i].reqLogged = FALSE
    /\ calls[i].resLogged = TRUE

\* Two calls of the same operation with the same arguments.
SameCall(i, j) ==
  /\ Started(i)
  /\ Started(j)
  /\ calls[i].op = calls[j].op
  /\ calls[i].args = calls[j].args

\* C19: logging never alters a call: two calls of the same operation with
\* the same arguments carry the same request, and when the upstream behaved
\* the same for both they settle the same way, with the same resolved value
\* or the same rejected error (name, message, statusCode, response body),
\* whatever the debug flag was when each of them was sent and answered.
C19_LoggingAltersNothing ==
  \A i, j \in Slots :
    SameCall(i, j)
    => /\ calls[i].req = calls[j].req
       /\ calls[i].invoked = calls[j].invoked
       /\ (/\ calls[i].phase \in {"resolved", "rejected"}
           /\ calls[j].phase \in {"resolved", "rejected"}
           /\ calls[i].upstream = calls[j].upstream)
          => /\ calls[i].phase = calls[j].phase
             /\ calls[i].value = calls[j].value
             /\ calls[i].err = calls[j].err

\* C19 witness: two calls.create with the same payload both got a 404 with
\* the same body; one was sent and answered with debug on and logged twice,
\* the other with debug off and not logged, and the errors are the same.
C19_Witness ==
  \E i, j \in Slots :
    /\ SameCall(i, j)
    /\ calls[i].op = "calls.create"
    /\ calls[i].upstream.kind = "status"
    /\ calls[i].upstream = calls[j].upstream
    /\ calls[i].reqLogged /\ calls[i].resLogged
    /\ ~calls[j].reqLogged /\ ~calls[j].resLogged
    /\ calls[i].phase = "rejected"
    /\ calls[j].phase = "rejected"
    /\ calls[i].err = calls[j].err

\* C20: for every label of LEAD_STATUS (New, Client, Closed, Sphere, Active,
\* Contract, Archived, Prospect), getLeadStatusName applied to what
\* getLeadStatusCode returned for the label gives the label back.
C20_LeadStatusRoundTrip ==
  (/\ Len(reg) = 2
   /\ reg[1].fn = "getLeadStatusCode"
   /\ reg[1].arg \in {Str("New"), Str("Client"), Str("Closed"), Str("Sphere"),
                      Str("Active"), Str("Contract"), Str("Archived"), Str("Prospect")}
   /\ reg[2].fn = "getLeadStatusName"
   /\ reg[2].arg = reg[1].out)
  => reg[2].out = reg[1].arg

\* C20 witness: getLeadStatusCode('Prospect') returned the key '7' and
\* getLeadStatusName of it returned 'Prospect'.
C20_Witness ==
  /\ Len(reg) = 2
  /\ reg[1] = [fn |-> "getLeadStatusCode", arg |-> Str("Prospect"), out |-> Str("7")]
  /\ reg[2] = [fn |-> "getLeadStatusName", arg |-> Str("7"), out |-> Str("Prospect")]

\* The error the transport's response interceptor rejected with, for what
\* the request of call i met.
TransportError(i) ==
  CASE calls[i].upstream.kind = "status" ->
         responseErrorInterceptor(HttpStatusError(calls[i].upstream.status,
                                                  calls[i].upstream.data))
    [] calls[i].upstream.kind = "noresponse" ->
         responseErrorInterceptor(NoResponseError(calls[i].upstream.message))
    [] calls[i].upstream.kind = "setup" ->
         responseErrorInterceptor(SetupError(calls[i].upstream.message))

\* C21: when the transport failed for a call (error response, no response,
\* request never sent), the mediator operation rejects, with no value, and
\* the error it rejects with is the one the transport produced: same
\* message, statusCode and response body.
C21_TransportErrorsPropagate ==
  \A i \in Slots :
    calls[i].upstream.kind \in {"status", "noresponse", "setup"}
    => /\ calls[i].phase = "rejected"
       /\ calls[i].value = NoData
       /\ calls[i].err = TransportError(i)
       /\ calls[i].err # NoError

\* C21 witness: a notes.update answered 500 {message: 'Not found'} has
\* rejected with that message, statusCode 500 and the body as responseData.
C21_Witness ==
  \E i \in Slots :
    /\ calls[i].op = "notes.update"
    /\ calls[i].upstream.kind = "status"
    /\ calls[i].upstream.status = 500
    /\ calls[i].upstream.data = DataObject(Undefined, Str("Not found"), Undefined)
    /\ calls[i].phase = "rejected"
    /\ calls[i].err.message = Str("Not found")
    /\ calls[i].err.statusCode = Num(500)
    /\ calls[i].err.responseData = calls[i].upstream.data

\* C22: whenever the upstream call of a route handler failed, the handler
\* has answered with the status of the error it caught (500 when the error
\* carries none), never a 2xx, and the JSON body {error: the error's message,
\* details: the upstream body the error carries, if any}.
C22_RouteErrorEnvelope ==
  \A h \in Requests :
    LET r == srv.requests[h] IN
    r.upstream.kind \in {"status", "noresponse", "setup"}
    => /\ r.phase = "responded"
       /\ r.res.status = IF r.err.statusCode.k = "number"
                           THEN r.err.statusCode.n
                           ELSE 500
       /\ r.res.status \notin 200..299
       /\ r.res.kind = "json"
       /\ r.res.error = r.err.message
       /\ r.res.details = r.err.responseData
       /\ r.res.data = NoData
       /\ r.upstream.kind = "noresponse" => r.res.status = 503
       /\ r.upstream.kind = "setup" => r.res.status = 500

\* C22 witness: PUT /contacts/42/searchalerts/1 whose upstream call got
\* 404 {message: 'Not found'} was answered 404 {error: 'Not found',
\* details: {message: 'Not found'}}, while another request still awaits its
\* upstream answer.
C22_Witness ==
  \E h \in Requests :
    LET r == srv.requests[h] IN
    /\ \E g \in Requests \ {h} : srv.requests[g].phase = "awaiting"
    /\ r.route = "PUT /contacts/:contactId/searchalerts/:alertNumber"
    /\ r.upstream.kind = "status"
    /\ r.upstream.status = 404
    /\ r.upstream.data = DataObject(Undefined, Str("Not found"), Undefined)
    /\ r.res.status = 404
    /\ r.res.error = Str("Not found")
    /\ r.res.details = r.upstream.data

\* The mediator operation a route stands for.
MirrorOf(route) ==
  CASE route = "PUT /contacts/:contactId/calls" -> "calls.create"
    [] route = "PUT /contacts/:contactId/calls/:actionId" -> "calls.update"
    [] route = "POST /contacts/:contactId/searchalerts" -> "searchAlerts.create"
    [] route = "PUT /contacts/:contactId/searchalerts/:alertNumber" -> "searchAlerts.update"
    [] route = "DELETE /contacts/:contactId/searchalerts/:alertNumber" -> "searchAlerts.delete"
    [] route = "POST /contacts/:contactId/searchalerts/:alertNumber/send" -> "searchAlerts.send"
    [] route = "GET /contacts/:contactId/searchalerts/:alertNumber/recent" -> "searchAlerts.getRecent"
    [] route = "POST /schedule-call" -> "misc.scheduleCall"
    [] route = "POST /views" -> "misc.addListingView"
    [] OTHER -> "(none)"

\* How an identifier given to a mediator is spelled as a path segment.
SegmentOf(id) == IF id = Undefined THEN "" ELSE JsToString(id)

\* The request being handled and the mediator call i are the same operation
\* on the same identifiers and payload.
Mirrored(h, i) ==
  LET r == srv.requests[h] IN
  /\ r.phase # "idle"
  /\ Started(i)
  /\ calls[i].op = MirrorOf(r.route)
  /\ r.params.contactId = SegmentOf(calls[i].args.id)
  /\ (IF r.params.alertNumber # "" THEN r.params.alertNumber ELSE r.params.actionId)
       = SegmentOf(calls[i].args.id2)
  /\ r.body = calls[i].args.payload

\* C23 (as stated): a route and the mediator operation it stands for, given
\* the same identifiers and payload, either both reject by validation with
\* no upstream request, or both issue the same upstream request (method,
\* path, body, query).
C23_RoutesMirrorMediators ==
  \A h \in Requests, i \in SeqSlots :
    LET r == srv.requests[h] IN
    Mirrored(h, i)
    => \/ /\ r.invoked = 0
          /\ r.res.status = 400
          /\ calls[i].invoked = 0
          /\ calls[i].phase = "rejected"
       \/ /\ r.invoked = 1
          /\ calls[i].invoked = 1
          /\ r.req.method = calls[i].req.method
          /\ r.req.url = calls[i].req.url
          /\ r.req.data = calls[i].req.data
          /\ r.req.params = calls[i].req.params

\* The request a call of op with args has to carry, by its own arguments.
OwnRequestOf(i) ==
  CASE calls[i].op = "contacts.get" ->
         [method |-> "get", url |-> "/contact/" \o IdText(calls[i].args.id),
          data |-> NoPayload]
    [] calls[i].op = "calls.create" ->
         [method |-> "put",
          url |-> "/contact/" \o IdText(calls[i].args.id) \o "/action/call",
          data |-> calls[i].args.payload]

\* C24: concurrent calls on one client are independent: in every
\* interleaving of calls, answers and debug switches, a call's request is the
\* one its own arguments give, its resolved value or rejected error is the
\* one the answer to its own request gives, and a step that starts, sends or
\* settles one call leaves every other call as it was.
C24_ConcurrentCallsIndependent ==
  /\ [](\A i \in Slots :
          /\ calls[i].invoked = 1
             => /\ calls[i].req.method = OwnRequestOf(i).method
                /\ calls[i].req.url = OwnRequestOf(i).url
                /\ calls[i].req.data = OwnRequestOf(i).data
          /\ calls[i].upstream.kind = "success"
             => calls[i].phase = "resolved" /\ calls[i].value = calls[i].upstream.data
          /\ calls[i].upstream.kind \in {"status", "noresponse", "setup"}
             => calls[i].phase = "rejected" /\ calls[i].err = TransportError(i))
  /\ [][\A i, j \in Slots :
          (i # j /\ calls'[i] # calls[i]) => calls'[j] = calls[j]]_vars

\* C24 witness: of two concurrent calls the calls.create has already been
\* rejected with a 404 while the contacts.get is still waiting for its
\* answer, and enableDebug was called in between.
C24_Witness ==
  \E i, j \in Slots :
    /\ i # j
    /\ calls[i].op = "contacts.get"
    /\ calls[i].phase = "sent"
    /\ calls[j].op = "calls.create"
    /\ calls[j].phase = "rejected"
    /\ calls[j].upstream.status = 404
    /\ toggled.op = "enableDebug"

\* The call has its request made and is not settled yet.
Pending(i) == calls[i].phase \in {"queued", "sent"}

Settled(i) == calls[i].phase \in {"resolved", "rejected"}

\* C25: every mediator call that passed validation eventually settles, also
\* when the upstream never answers: the transport always has a timeout above
\* zero (30000 ms unless configured), and a call ended by it rejects with
\* statusCode 503 and 'No response received from KVCore API'.
C25_EveryCallSettles ==
  /\ \A i \in SeqSlots : Pending(i) ~> Settled(i)
  /\ [](client.state = "ready"
          => /\ client.http.timeout > 0
             /\ GivenToken = Str("tok-A") => client.http.timeout = 30000)
  /\ [](\A i \in SeqSlots :
          calls[i].upstream.kind = "noresponse"
          => /\ calls[i].phase = "rejected"
             /\ calls[i].err.statusCode = Num(503)
             /\ calls[i].err.message = Str("No response received from KVCore API"))

\* C25 witness: on a client constructed with timeout 0, hence the default
\* 30000 ms, a calls.create was ended by the timeout and has rejected.
C25_Witness ==
  \E i \in SeqSlots :
    /\ client.given # NoPayload
    /\ client.given.timeout = Num(0)
    /\ calls[i].op = "calls.create"
    /\ calls[i].upstream.kind = "noresponse"
    /\ calls[i].upstream.message = "timeout of 30000ms exceeded"
    /\ calls[i].phase = "rejected"
    /\ calls[i].err.statusCode = Num(503)

\* A string spelling a decimal number, which a caller may mean as the code.
NumericString(v) == v.k = "string" /\ v.s # "" /\ \A k \in 1..Len(v.s) : IsDigit(SubSeq(v.s, k, k), 10)

\* C26 (as stated): the membership predicates are exact: isValidCallResult
\* returns true exactly for the codes 1, 2, 3, isValidCallDirection exactly
\* for 'outbound' and 'inbound', isValidSearchAlertNumber exactly for 1 and
\* 2, and false for every other value (numeric strings left aside).
C26_PredicatesExact ==
  \A k \in DOMAIN reg :
    ~NumericString(reg[k].arg)
    => /\ reg[k].fn = "isValidCallResult"
            => reg[k].out = Bool(reg[k].arg \in {Num(1), Num(2), Num(3)})
       /\ reg[k].fn = "isValidCallDirection"
            => reg[k].out = Bool(reg[k].arg \in {Str("outbound"), Str("inbound")})
       /\ reg[k].fn = "isValidSearchAlertNumber"
            => reg[k].out = Bool(reg[k].arg \in {Num(1), Num(2)})

\* The payload or filter object of call i went upstream as it was given: as
\* the query for contacts.list, as the body for every other operation.
PassedThrough(i) ==
  IF calls[i].op = "contacts.list"
    THEN calls[i].req.params = calls[i].args.payload /\ calls[i].req.data = NoPayload
    ELSE calls[i].req.data = calls[i].args.payload /\ calls[i].req.params = NoPayload

\* C27: for every operation given a payload or filter object that made its
\* request, the body (the query, for contacts.list) of the request equals
\* the caller's object, with no field added, removed, defaulted or coerced,
\* and the caller's object stays as given for the whole call.
C27_PayloadsPassThrough ==
  /\ [](\A i \in SeqSlots :
          (calls[i].invoked = 1 /\ calls[i].args.payload # NoPayload) => PassedThrough(i))
  /\ [][\A i \in SeqSlots :
          (Started(i) /\ calls'[i].phase # "idle") => calls'[i].args = calls[i].args]_vars

\* C27 witness: a calls.create whose payload has a valid result and no
\* direction has resolved, and its request body is that payload, the
\* direction still absent.
C27_Witness ==
  \E i \in SeqSlots :
    /\ calls[i].op = "calls.create"
    /\ calls[i].phase = "resolved"
    /\ calls[i].args.payload.result = Num(1)
    /\ calls[i].args.payload.direction = Undefined
    /\ calls[i].req.data = calls[i].args.payload

\* C28: after any sequence of library operations (lookups, predicates,
\* mediator calls, debug toggles) the seven enumeration tables hold the keys
\* and values they had when the module was loaded.
C28_TablesNeverMutated ==
  /\ tables = Tables
  /\ DOMAIN tables.LEAD_STATUS = {"0", "1", "2", "3", "4", "5", "6", "7"}
  /\ DOMAIN tables.CALL_RESULT = {"1", "2", "3"}
  /\ tables.SEARCH_ALERT_NUMBER = <<Num(1), Num(2)>>

\* C28 witness: a lookup of a code the table lacks answered undefined and a
\* predicate was evaluated, on a client whose mediator call has resolved
\* while logging was switched on.
C28_Witness ==
  /\ Len(reg) = 2
  /\ reg[1] = [fn |-> "getLeadStatusName", arg |-> Num(8), out |-> Undefined]
  /\ reg[2].fn = "isValidCallResult"
  /\ debug = TRUE
  /\ \E i \in SeqSlots : calls[i].phase = "resolved"

\* The request in hand as h carries an input its route must refuse.
FailsValidation(h) ==
  LET r == srv.requests[h] IN
  CASE r.route \in {"PUT /contacts/:contactId/calls",
                      "PUT /contacts/:contactId/calls/:actionId"} ->
         \/ /\ r.body.result # Undefined
            /\ r.body.result \notin {Num(1), Num(2), Num(3)}
         \/ /\ r.body.direction # Undefined
            /\ r.body.direction \notin {Str("outbound"), Str("inbound")}
    [] r.route = "POST /contacts/:contactId/searchalerts" ->
         r.body.number \notin {Num(1), Num(2)}
    [] r.route \in {"PUT /contacts/:contactId/searchalerts/:alertNumber",
                      "DELETE /contacts/:contactId/searchalerts/:alertNumber",
                      "POST /contacts/:contactId/searchalerts/:alertNumber/send",
                      "GET /contacts/:contactId/searchalerts/:alertNumber/recent"} ->
         parseInt(r.params.alertNumber, 10) \notin {Num(1), Num(2)}
    [] r.route = "POST /schedule-call" -> r.body.leadId = Undefined
    [] r.route = "POST /views" ->
         r.body.lead_id = Undefined \/ r.body.mls_id = Undefined
    [] OTHER -> FALSE

\* C29 (as stated): a server request that fails input validation (call
\* result or direction on the PUT calls routes, alert number on the
\* search-alert routes, missing leadId on POST /schedule-call, missing
\* lead_id or mls_id on POST /views) is answered 400 with a body {error},
\* and no upstream request is made.
C29_InvalidRequestAnswered400 ==
  \A h \in Requests :
    LET r == srv.requests[h] IN
    (r.phase # "idle" /\ FailsValidation(h))
    => /\ r.phase = "responded"
       /\ r.res.status = 400
       /\ r.res.kind = "json"
       /\ r.res.error.k = "string"
       /\ r.res.data = NoData
       /\ r.invoked = 0

RECURSIVE UpToSlash(_)
\* The leading part of a path up to its next '/'.
UpToSlash(path) ==
  IF path = "" \/ SubSeq(path, 1, 1) = "/"
    THEN ""
    ELSE SubSeq(path, 1, 1) \o UpToSlash(Tail(path))

RECURSIVE AlertSegment(_)
\* The path segment of a URL that follows '/searchalert/'.
AlertSegment(url) ==
  IF Len(url) < Len("/searchalert/")
    THEN ""
    ELSE IF SubSeq(url, 1, Len("/searchalert/")) = "/searchalert/"
      THEN UpToSlash(SubSeq(url, Len("/searchalert/") + 1, Len(url)))
      ELSE AlertSegment(Tail(url))

NumberedAlertOps ==
  {"searchAlerts.update", "searchAlerts.delete", "searchAlerts.send", "searchAlerts.getRecent"}

\* C30: every upstream request of a numbered search-alert operation (update,
\* delete, send, getRecent), made by a mediator or by a server route, has
\* the alert-number path segment 1 or 2.
C30_AlertSegmentOneOrTwo ==
  /\ \A h \in Requests :
       LET r == srv.requests[h] IN
       (r.invoked = 1 /\ MirrorOf(r.route) \in NumberedAlertOps)
       => AlertSegment(r.req.url) \in {"1", "2"}
  /\ \A i \in SeqSlots :
       (calls[i].invoked = 1 /\ calls[i].op \in NumberedAlertOps)
       => AlertSegment(calls[i].req.url) \in {"1", "2"}

\* C30 witness: POST /contacts/42/searchalerts/1abc/send went upstream as
\* POST /contact/42/searchalert/1/send, and the mediator's getRecent(42, 1)
\* as GET /contact/42/searchalert/1/recent.
C30_Witness ==
  \E h \in Requests :
    LET r == srv.requests[h] IN
    /\ r.route = "POST /contacts/:contactId/searchalerts/:alertNumber/send"
    /\ r.params.alertNumber = "1abc"
    /\ r.invoked = 1
    /\ r.req.url = "/contact/42/searchalert/1/send"
    /\ \E i \in SeqSlots :
         /\ calls[i].op = "searchAlerts.getRecent"
         /\ calls[i].args.id2 = Num(1)
         /\ calls[i].invoked = 1
         /\ calls[i].req.url = "/contact/42/searchalert/1/recent"

====
